---- MODULE Spec2Model ----
(***************************************************************************)
(* Model of the message-to-post assembly pipeline of tg-chat-parser:       *)
(*   - TelegramFetcher.fetch_messages and its helpers (src/src/tg_client.py)*)
(*   - AlbumGrouper._merge_grouped_messages / _create_block_from_message   *)
(*   - DocxExporter._add_formatted_text (src/src/docx_client.py)           *)
(*   - ExporterApp.run_export (src/src/app.py)                             *)
(*                                                                         *)
(* Text is a sequence of one-character strings, so that slicing and        *)
(* trimming are computed and not assumed.  Dates are integers.             *)
(***************************************************************************)
EXTENDS Integers, Sequences, FiniteSets, TLC

VARIABLES
    pc,                      \* position of fetch_messages
    auth_ok,                 \* what interactive_auth returned: "pending", "True", "False"
    start_date, end_date,    \* arguments of fetch_messages
    media_progress_callback, \* TRUE when a callback was passed, FALSE for None
    connected,               \* client.connect() succeeded and no disconnect yet
    disconnect_calls,        \* number of client.disconnect() calls
    entity_calls,            \* number of client.get_entity() calls
    yielded,                 \* messages the remote iterator has yielded so far
    all_messages,            \* fetch_messages: all_messages
    total_media_items,       \* fetch_messages: total_media_items
    created_blocks,          \* the Posts as grouping created them (production order)
    all_blocks,              \* fetch_messages: all_blocks
    block_i, msg_i,          \* loop positions of the two download loops
    downloaded_media_items,  \* fetch_messages: downloaded_media_items
    download_log,            \* <<message id, outcome>> of every download_media call
    progress_calls,          \* <<downloaded, total>> of every callback call
    exc,                     \* the exception fetch_messages is propagating, or "None"
    fmt_mode, fmt_text, fmt_entities, fmt_out, fmt_pc,   \* _add_formatted_text
    post_images,             \* add_post: the images argument
    post_image_position,     \* DocxExporter.image_position
    post_include_date_heading,   \* DocxExporter.include_date_heading
    mg_in, mg_out, mg_pc,                                \* _merge_grouped_messages
    ex_pc, ex_fetch, ex_blocks, ex_i, ex_posts, ex_saves, ex_cleans, ex_exc, \* run_export
    main_pc,                 \* position of one turn of the loop of main (main.py)
    main_temp_media_dir,     \* main: temp_media_dir is not None
    main_docx_exporter,      \* main: docx_exporter is not None
    main_document,           \* the posts added to the document of docx_exporter
    main_blocks, main_i,     \* main: blocks, and the place of process_content_blocks
    main_saves,              \* every docx_exporter.save call: its path and the document
    main_cleans,             \* number of clean_dir(temp_media_dir) calls
    main_exc,                \* the exception main is handling or propagating
    main_autosave_path,      \* process_content_blocks: autosave_path is not None
    main_autosave_every,     \* process_content_blocks: autosave_every
    cli_pc,                  \* position of one turn of the loop of main_cli (cli.py)
    cli_credentials,         \* API_ID and API_HASH are both set
    cli_channel_url,         \* what the user typed as channel
    cli_start_date_str,      \* what the user typed as start date
    cli_export_config,       \* zero or one export_config, as interactive_setup returned it
    cli_logged,              \* the exception main_cli caught and logged, or "None"
    cli_log                  \* turns begun, Confirm.ask calls with their answers, run_export calls

fetchVars == <<pc, auth_ok, start_date, end_date, media_progress_callback, connected,
               disconnect_calls, entity_calls, yielded, all_messages,
               total_media_items, created_blocks, all_blocks, block_i, msg_i,
               downloaded_media_items, download_log, progress_calls, exc>>
fmtVars == <<fmt_mode, fmt_text, fmt_entities, fmt_out, fmt_pc,
             post_images, post_image_position, post_include_date_heading>>
mgVars == <<mg_in, mg_out, mg_pc>>
exVars == <<ex_pc, ex_fetch, ex_blocks, ex_i, ex_posts, ex_saves, ex_cleans, ex_exc>>
mainVars == <<main_pc, main_temp_media_dir, main_docx_exporter, main_document,
              main_blocks, main_i, main_saves, main_cleans, main_exc,
              main_autosave_path, main_autosave_every>>
cliVars == <<cli_pc, cli_credentials, cli_channel_url, cli_start_date_str,
             cli_export_config, cli_logged, cli_log>>
vars == <<fetchVars, fmtVars, mgVars, exVars, mainVars, cliVars>>

----------------------------------------------------------------------------
(* Bounds *)

\* messages the remote iterator yields in one fetch
MaxMsgs == 2

\* members of the album handed to _merge_grouped_messages
MaxMembers == 3

\* images handed to add_post
MaxImages == 2

\* length of the text handed to _add_formatted_text, and number of its entities
MaxTextLen == 4

MaxEntities == 2

\* Posts a fetch hands to run_export
MaxBlocks == 2

\* Posts handed to process_content_blocks, and its autosave_every
MaxPosts == 6
MaxEvery == 3

\* turns of the loop of main_cli in one run of the program
MaxTurns == 2


----------------------------------------------------------------------------
(* Values *)

NoGroup == 0

\* one date before the window, the two ends of the window, one date after it
Dates == 0 .. 3

\* two album keys
GroupKeys == {1, 2}

WhitespaceChars == {" ", "\t", "\n"}

AttachmentMedia == {"MessageMediaPhoto", "MessageMediaDocument"}

Bold(o, l) == [kind |-> "MessageEntityBold", offset |-> o, length |-> l, url |-> "None"]

----------------------------------------------------------------------------
(* Pure helpers *)

\* str.strip(): drop leading and trailing whitespace
RECURSIVE LStrip(_)
LStrip(s) ==
    IF s = <<>> THEN <<>>
    ELSE IF Head(s) \in WhitespaceChars THEN LStrip(Tail(s)) ELSE s

RECURSIVE RStrip(_)
RStrip(s) ==
    IF s = <<>> THEN <<>>
    ELSE IF s[Len(s)] \in WhitespaceChars THEN RStrip(SubSeq(s, 1, Len(s) - 1)) ELSE s

Strip(s) == RStrip(LStrip(s))

\* isinstance(message.media, (MessageMediaPhoto, MessageMediaDocument))
HasMedia(m) == m.media \in AttachmentMedia

\* the members left in arrival order
SortByIdSkipped(s) == s

\* list.sort(key=...) : stable insertion of x into a sequence sorted by key
RECURSIVE InsertById(_, _)
InsertById(x, s) ==
    IF s = <<>> THEN <<x>>
    ELSE IF x.id < Head(s).id THEN <<x>> \o s
    ELSE <<Head(s)>> \o InsertById(x, Tail(s))

RECURSIVE SortById(_)
SortById(s) ==
    IF s = <<>> THEN <<>>
    ELSE InsertById(s[Len(s)], SortById(SubSeq(s, 1, Len(s) - 1)))

\* the blocks returned in production order
SortByDateSkipped(s) == s

RECURSIVE InsertByDate(_, _)
InsertByDate(x, s) ==
    IF s = <<>> THEN <<x>>
    ELSE IF x.date < Head(s).date THEN <<x>> \o s
    ELSE <<Head(s)>> \o InsertByDate(x, Tail(s))

RECURSIVE SortByDate(_)
SortByDate(s) ==
    IF s = <<>> THEN <<>>
    ELSE InsertByDate(s[Len(s)], SortByDate(SubSeq(s, 1, Len(s) - 1)))

\* whitespace-only text taken for text
FirstWithTextUntrimmed(sorted) ==
    LET withText == {i \in 1 .. Len(sorted) : sorted[i].message # <<>>}
    IN IF withText = {} THEN 0
       ELSE CHOOSE i \in withText : \A j \in withText : i <= j

\* lines 78-83: the first message, in list order, with text left after strip();
\* 0 when there is none
FirstWithText(sorted) ==
    LET withText == {i \in 1 .. Len(sorted) :
                        sorted[i].message # <<>> /\ Strip(sorted[i].message) # <<>>}
    IN IF withText = {} THEN 0
       ELSE CHOOSE i \in withText : \A j \in withText : i <= j

\* the merged block keeping the representative alone for the download
MergeGroupedMessagesRepresentativeOnly(messages) ==
    IF messages = <<>> THEN <<>>
    ELSE LET sorted == SortById(messages)
             k == FirstWithText(sorted)
             text_message == IF k = 0 THEN sorted[1] ELSE sorted[k]
         IN << [date |-> text_message.date,
                text |-> text_message.message,
                entities |-> text_message.entities,
                media_paths |-> <<>>,
                messages |-> <<text_message>>] >>

\* the empty-message filter applied to albums too
MergeGroupedMessagesFiltered(messages) ==
    IF \A i \in 1 .. Len(messages) : messages[i].message = <<>> /\ ~HasMedia(messages[i])
    THEN <<>>
    ELSE LET sorted == SortById(messages)
             k == FirstWithText(sorted)
             text_message == IF k = 0 THEN sorted[1] ELSE sorted[k]
         IN << [date |-> text_message.date,
                text |-> text_message.message,
                entities |-> text_message.entities,
                media_paths |-> <<>>,
                messages |-> sorted] >>

\* AlbumGrouper._merge_grouped_messages: an Optional[ContentBlock] is a
\* sequence of zero or one block
MergeGroupedMessages(messages) ==
    IF messages = <<>> THEN <<>>
    ELSE LET sorted == SortById(messages)
             k == FirstWithText(sorted)
             text_message == IF k = 0 THEN sorted[1] ELSE sorted[k]
         IN << [date |-> text_message.date,
                text |-> text_message.message,
                entities |-> text_message.entities,
                media_paths |-> <<>>,
                messages |-> sorted] >>

\* the filter looking at the text alone
CreateBlockFromMessageTextOnly(message) ==
    IF message.message = <<>> THEN <<>>
    ELSE << [date |-> message.date,
             text |-> message.message,
             entities |-> message.entities,
             media_paths |-> <<>>,
             messages |-> <<message>>] >>

\* AlbumGrouper._create_block_from_message
CreateBlockFromMessage(message) ==
    IF message.message = <<>> /\ ~HasMedia(message) THEN <<>>
    ELSE << [date |-> message.date,
             text |-> message.message,
             entities |-> message.entities,
             media_paths |-> <<>>,
             messages |-> <<message>>] >>

\* every message counted, with or without attachment
CountMediaEveryMessage(msgs) == Len(msgs)

\* fetch_messages, lines 239-242
CountMedia(msgs) == Cardinality({i \in 1 .. Len(msgs) : HasMedia(msgs[i])})

\* fetch_messages, lines 246-256: the keys of grouped_messages in insertion order
RECURSIVE GroupOrder(_, _)
GroupOrder(msgs, seen) ==
    IF msgs = <<>> THEN <<>>
    ELSE LET g == Head(msgs).grouped_id
         IN IF g = NoGroup \/ g \in seen THEN GroupOrder(Tail(msgs), seen)
            ELSE <<g>> \o GroupOrder(Tail(msgs), seen \cup {g})

MembersOf(msgs, g) == SelectSeq(msgs, LAMBDA m : m.grouped_id = g)

\* the album members taken as standalone messages too
StandaloneMessagesEveryMessage(msgs) == msgs

StandaloneMessages(msgs) == SelectSeq(msgs, LAMBDA m : m.grouped_id = NoGroup)

\* fetch_messages, lines 258-270: album Posts first, standalone Posts after
RECURSIVE MergeAll(_, _)
MergeAll(msgs, order) ==
    IF order = <<>> THEN <<>>
    ELSE MergeGroupedMessages(MembersOf(msgs, Head(order))) \o MergeAll(msgs, Tail(order))

RECURSIVE CreateAll(_)
CreateAll(standalone) ==
    IF standalone = <<>> THEN <<>>
    ELSE CreateBlockFromMessage(Head(standalone)) \o CreateAll(Tail(standalone))

\* the standalone Posts produced before the album Posts
BuildBlocksStandaloneFirst(msgs) ==
    CreateAll(StandaloneMessages(msgs)) \o MergeAll(msgs, GroupOrder(msgs, {}))

BuildBlocks(msgs) ==
    MergeAll(msgs, GroupOrder(msgs, {})) \o CreateAll(StandaloneMessages(msgs))

----------------------------------------------------------------------------
(* The messages the remote iterator can yield *)

\* text and entities of a message: empty, whitespace only, or styled text
TextShapes ==
    { [message |-> <<>>, entities |-> <<>>],
      [message |-> <<" ">>, entities |-> <<>>],
      [message |-> <<"a">>, entities |-> <<Bold(0, 1)>>] }

\* a service message (telethon MessageService) carries an action and no content
ServiceShape ==
    [message |-> <<>>, entities |-> <<>>, media |-> "None",
     grouped_id |-> NoGroup, action |-> "MessageActionPinMessage"]

StandaloneShapes ==
    { [message |-> t.message, entities |-> t.entities, media |-> md,
       grouped_id |-> NoGroup, action |-> "None"] :
        t \in TextShapes, md \in {"None", "MessageMediaPhoto", "MessageMediaGeo"} }

\* an album member carries a photo or a document, or (as in the tests) nothing
AlbumShapes ==
    { [message |-> t.message, entities |-> t.entities, media |-> md,
       grouped_id |-> g, action |-> "None"] :
        t \in TextShapes, md \in {"None", "MessageMediaPhoto"}, g \in GroupKeys }

\* a message with text and an attachment: it would show if it were listed
ContentShape ==
    [message |-> <<"a">>, entities |-> <<Bold(0, 1)>>, media |-> "MessageMediaPhoto",
     grouped_id |-> NoGroup, action |-> "None"]

\* album keys are only compared for equality: a new album takes the lowest
\* key no yielded message has used
NextGroupKeys(seen) ==
    LET used == {seen[i].grouped_id : i \in 1 .. Len(seen)} \ {NoGroup}
        free == GroupKeys \ used
    IN used \cup {g \in free : \A h \in free : g <= h}

\* lines 228-231 read nothing but the date of a message outside the window
ShapesAt(date, start, end, seen) ==
    IF date < start \/ date > end THEN {ContentShape, ServiceShape}
    ELSE StandaloneShapes \cup {ServiceShape}
         \cup {a \in AlbumShapes : a.grouped_id \in NextGroupKeys(seen)}

MakeMessage(id, date, shape) ==
    [id |-> id, date |-> date, message |-> shape.message, entities |-> shape.entities,
     media |-> shape.media, grouped_id |-> shape.grouped_id, action |-> shape.action]

\* the identifiers of the yielded messages run in one direction: descending as
\* iter_messages(reverse=False) yields them, or ascending as the tests' iterators do
NextIds(seen) ==
    IF seen = <<>> THEN {1, MaxMsgs}
    ELSE IF seen[1].id = 1 THEN {Len(seen) + 1}
    ELSE {MaxMsgs - Len(seen)}

----------------------------------------------------------------------------
(* fetch_messages *)

NoFmt ==
    /\ fmt_mode = "None" /\ fmt_text = <<>> /\ fmt_entities = <<>>
    /\ fmt_out = <<>> /\ fmt_pc = "off"
    /\ post_images = <<>> /\ post_image_position = "after"
    /\ post_include_date_heading = TRUE

NoMerge == mg_in = <<>> /\ mg_out = <<>> /\ mg_pc = "off"

NoExport ==
    /\ ex_pc = "off" /\ ex_fetch = "None" /\ ex_blocks = <<>> /\ ex_i = 0
    /\ ex_posts = <<>> /\ ex_saves = 0 /\ ex_cleans = 0 /\ ex_exc = "None"

NoMain ==
    /\ main_pc = "off" /\ main_temp_media_dir = FALSE /\ main_docx_exporter = FALSE
    /\ main_document = <<>> /\ main_blocks = <<>> /\ main_i = 0
    /\ main_saves = <<>> /\ main_cleans = 0 /\ main_exc = "None"
    /\ main_autosave_path = FALSE /\ main_autosave_every = 50

NoCli ==
    /\ cli_pc = "off" /\ cli_credentials = FALSE /\ cli_channel_url = <<>>
    /\ cli_start_date_str = <<>> /\ cli_export_config = <<>> /\ cli_logged = "None"
    /\ cli_log = <<>>

NoFetch ==
    /\ pc = "off" /\ auth_ok = "pending" /\ start_date = 0 /\ end_date = 0
    /\ media_progress_callback = FALSE
    /\ connected = FALSE /\ disconnect_calls = 0 /\ entity_calls = 0
    /\ yielded = <<>> /\ all_messages = <<>> /\ total_media_items = 0
    /\ created_blocks = <<>> /\ all_blocks = <<>> /\ block_i = 0 /\ msg_i = 0
    /\ downloaded_media_items = 0 /\ download_log = <<>> /\ progress_calls = <<>>
    /\ exc = "None"

Init ==
    /\ pc = "auth" /\ auth_ok = "pending"
    /\ start_date = 1
    /\ end_date = 2
    /\ media_progress_callback \in BOOLEAN
    /\ connected = FALSE /\ disconnect_calls = 0 /\ entity_calls = 0
    /\ yielded = <<>> /\ all_messages = <<>> /\ total_media_items = 0
    /\ created_blocks = <<>> /\ all_blocks = <<>> /\ block_i = 0 /\ msg_i = 0
    /\ downloaded_media_items = 0 /\ download_log = <<>> /\ progress_calls = <<>>
    /\ exc = "None"
    /\ NoFmt /\ NoMerge /\ NoExport /\ NoMain /\ NoCli

\* interactive_auth (lines 151-185): what it returns on each course of events;
\* an Exception anywhere inside is caught and makes it return False
InteractiveAuth(outcome) ==
    IF outcome \in {"authorized", "signed_in"} THEN "True" ELSE "False"

\* the result of interactive_auth not checked
AfterAuthUnchecked(ok) == "get_entity"

\* lines 211-214: raise when not authenticated, else enter the try block
AfterAuth(ok) == IF ok = "True" THEN "get_entity" ELSE "raised"

\* lines 210-212: the raise is outside the try/finally of line 214
Authenticate ==
    /\ pc = "auth"
    /\ \E outcome \in {"authorized", "signed_in", "connect_failed", "sign_in_failed"} :
         /\ connected' = (outcome # "connect_failed")
         /\ auth_ok' = InteractiveAuth(outcome)
         /\ pc' = AfterAuth(auth_ok')
         /\ exc' = IF pc' = "raised" THEN "Exception" ELSE exc
    /\ UNCHANGED <<start_date, end_date, media_progress_callback, disconnect_calls,
                   entity_calls, yielded, all_messages, total_media_items,
                   created_blocks, all_blocks, block_i, msg_i,
                   downloaded_media_items, download_log, progress_calls>>
    /\ UNCHANGED <<fmtVars, mgVars, exVars, mainVars, cliVars>>

\* line 216
GetEntity ==
    /\ pc = "get_entity"
    /\ entity_calls' = entity_calls + 1
    /\ \E outcome \in {"ok", "Exception", "KeyboardInterrupt"} :
         IF outcome = "ok" THEN pc' = "listing" /\ exc' = exc
         ELSE pc' = "finally" /\ exc' = outcome
    /\ UNCHANGED <<auth_ok, start_date, end_date, media_progress_callback, connected,
                   disconnect_calls, yielded, all_messages, total_media_items,
                   created_blocks, all_blocks, block_i, msg_i,
                   downloaded_media_items, download_log, progress_calls>>
    /\ UNCHANGED <<fmtVars, mgVars, exVars, mainVars, cliVars>>

\* the window taken exclusive at its start
ListingDecisionExclusive(message, start, end) ==
    IF message.date <= start THEN "break"
    ELSE IF message.date > end THEN "continue"
    ELSE IF message.action # "None" THEN "continue"
    ELSE "append"

\* the loop going on after a message earlier than start
ListingDecisionNoBreak(message, start, end) ==
    IF message.date < start THEN "continue"
    ELSE IF message.date > end THEN "continue"
    ELSE IF message.action # "None" THEN "continue"
    ELSE "append"

\* lines 228-237: what the loop body does with one message
ListingDecision(message, start, end) ==
    IF message.date < start THEN "break"
    ELSE IF message.date > end THEN "continue"
    ELSE IF message.action # "None" THEN "continue"
    ELSE "append"

\* lines 222-237: one turn of the async for loop on a yielded message
IterMessage ==
    /\ pc = "listing"
    /\ Len(yielded) < MaxMsgs
    /\ \E id \in NextIds(yielded), date \in Dates :
         \E shape \in ShapesAt(date, start_date, end_date, yielded) :
           LET message == MakeMessage(id, date, shape)
               decision == ListingDecision(message, start_date, end_date)
           IN /\ yielded' = Append(yielded, message)
              /\ pc' = IF decision = "break" THEN "grouping" ELSE pc
              /\ all_messages' = IF decision = "append"
                                 THEN Append(all_messages, message)
                                 ELSE all_messages
    /\ UNCHANGED <<auth_ok, start_date, end_date, media_progress_callback, connected,
                   disconnect_calls, entity_calls, total_media_items,
                   created_blocks, all_blocks, block_i, msg_i,
                   downloaded_media_items, download_log, progress_calls, exc>>
    /\ UNCHANGED <<fmtVars, mgVars, exVars, mainVars, cliVars>>

\* lines 222-226: the iterator is exhausted, or the remote call fails
IterEnd ==
    /\ pc = "listing"
    /\ \E outcome \in {"ok", "Exception", "KeyboardInterrupt"} :
         IF outcome = "ok" THEN pc' = "grouping" /\ exc' = exc
         ELSE pc' = "finally" /\ exc' = outcome
    /\ UNCHANGED <<auth_ok, start_date, end_date, media_progress_callback, connected,
                   disconnect_calls, entity_calls, yielded, all_messages,
                   total_media_items, created_blocks, all_blocks, block_i, msg_i,
                   downloaded_media_items, download_log, progress_calls>>
    /\ UNCHANGED <<fmtVars, mgVars, exVars, mainVars, cliVars>>

\* the same walk without line 282: block._messages is left as it is
RECURSIVE AdvanceKeepingMessages(_, _, _)
AdvanceKeepingMessages(blocks, bi, mi) ==
    IF bi > Len(blocks) THEN [blocks |-> blocks, bi |-> bi, mi |-> 1]
    ELSE IF mi > Len(blocks[bi].messages)
    THEN AdvanceKeepingMessages(blocks, bi + 1, 1)
    ELSE IF HasMedia(blocks[bi].messages[mi])
    THEN [blocks |-> blocks, bi |-> bi, mi |-> mi]
    ELSE AdvanceKeepingMessages(blocks, bi, mi + 1)

\* the download loops left out: every block counts as done at once
AdvanceSkippingDownloads(blocks, bi, mi) ==
    [blocks |-> [i \in 1 .. Len(blocks) |-> [blocks[i] EXCEPT !.messages = <<>>]],
     bi |-> Len(blocks) + 1, mi |-> 1]

\* the two loops of lines 274-282 and 310-312 between two awaits: skip the
\* messages without attachment, and clear block._messages of each block whose
\* loop has ended, up to the next message to download
RECURSIVE Advance(_, _, _)
Advance(blocks, bi, mi) ==
    IF bi > Len(blocks) THEN [blocks |-> blocks, bi |-> bi, mi |-> 1]
    ELSE IF mi > Len(blocks[bi].messages)
    THEN Advance([blocks EXCEPT ![bi].messages = <<>>], bi + 1, 1)
    ELSE IF HasMedia(blocks[bi].messages[mi])
    THEN [blocks |-> blocks, bi |-> bi, mi |-> mi]
    ELSE Advance(blocks, bi, mi + 1)

\* lines 239-282: count the attachments, group, create the blocks, and start
\* the download loop
Grouping ==
    /\ pc = "grouping"
    /\ total_media_items' = CountMedia(all_messages)
    /\ created_blocks' = BuildBlocks(all_messages)
    /\ downloaded_media_items' = 0
    /\ LET r == Advance(created_blocks', 1, 1)
       IN all_blocks' = r.blocks /\ block_i' = r.bi /\ msg_i' = r.mi
    /\ pc' = "download"
    /\ UNCHANGED <<auth_ok, start_date, end_date, media_progress_callback, connected,
                   disconnect_calls, entity_calls, yielded, all_messages,
                   download_log, progress_calls, exc>>
    /\ UNCHANGED <<fmtVars, mgVars, exVars, mainVars, cliVars>>

\* str(file_path) of a download that returned a path
PathOf(message) == <<"temp_media", message.id>>

\* no try/except around download_media: every exception propagates
DownloadOutcomeUncaught(outcome, message, paths, count, total, calls, callback) ==
    IF outcome \in {"path", "no_path"}
    THEN [paths |-> IF outcome = "path" THEN Append(paths, PathOf(message)) ELSE paths,
          count |-> count + 1,
          calls |-> IF callback THEN Append(calls, <<count + 1, total>>) ELSE calls,
          raised |-> "None"]
    ELSE [paths |-> paths, count |-> count, calls |-> calls, raised |-> outcome]

\* the path kept in place of the paths, not appended to them
DownloadOutcomeReplacingPaths(outcome, message, paths, count, total, calls, callback) ==
    IF outcome \in {"path", "no_path"}
    THEN [paths |-> IF outcome = "path" THEN <<PathOf(message)>> ELSE <<>>,
          count |-> count + 1,
          calls |-> IF callback THEN Append(calls, <<count + 1, total>>) ELSE calls,
          raised |-> "None"]
    ELSE IF outcome = "Exception"
    THEN [paths |-> paths, count |-> count, calls |-> calls, raised |-> "None"]
    ELSE [paths |-> paths, count |-> count, calls |-> calls, raised |-> outcome]

\* a download that raised counted and reported like one that returned
DownloadOutcomeCountingFailures(outcome, message, paths, count, total, calls, callback) ==
    IF outcome \in {"path", "no_path", "Exception"}
    THEN [paths |-> IF outcome = "path" THEN Append(paths, PathOf(message)) ELSE paths,
          count |-> count + 1,
          calls |-> IF callback THEN Append(calls, <<count + 1, total>>) ELSE calls,
          raised |-> "None"]
    ELSE [paths |-> paths, count |-> count, calls |-> calls, raised |-> outcome]

\* what _download_media_for_block does on one outcome of download_media
\* (lines 314-325): an Exception is caught and logged, anything else propagates
DownloadOutcome(outcome, message, paths, count, total, calls, callback) ==
    IF outcome \in {"path", "no_path"}
    THEN [paths |-> IF outcome = "path" THEN Append(paths, PathOf(message)) ELSE paths,
          count |-> count + 1,
          calls |-> IF callback THEN Append(calls, <<count + 1, total>>) ELSE calls,
          raised |-> "None"]
    ELSE IF outcome = "Exception"
    THEN [paths |-> paths, count |-> count, calls |-> calls, raised |-> "None"]
    ELSE [paths |-> paths, count |-> count, calls |-> calls, raised |-> outcome]

\* lines 314-325: one download_media call, then on to the next one
DownloadMedia ==
    /\ pc = "download"
    /\ block_i <= Len(all_blocks)
    /\ \E outcome \in {"path", "no_path", "Exception", "KeyboardInterrupt"} :
         LET block == all_blocks[block_i]
             message == block.messages[msg_i]
             r == DownloadOutcome(outcome, message, block.media_paths,
                                  downloaded_media_items, total_media_items,
                                  progress_calls, media_progress_callback)
             updated == [all_blocks EXCEPT ![block_i].media_paths = r.paths]
             next == Advance(updated, block_i, msg_i + 1)
         IN /\ download_log' = Append(download_log, <<message.id, outcome>>)
            /\ downloaded_media_items' = r.count
            /\ progress_calls' = r.calls
            /\ IF r.raised = "None"
               THEN /\ all_blocks' = next.blocks
                    /\ block_i' = next.bi /\ msg_i' = next.mi
                    /\ pc' = pc /\ exc' = exc
               ELSE /\ all_blocks' = updated
                    /\ block_i' = block_i /\ msg_i' = msg_i
                    /\ pc' = "finally" /\ exc' = r.raised
    /\ UNCHANGED <<auth_ok, start_date, end_date, media_progress_callback, connected,
                   disconnect_calls, entity_calls, yielded, all_messages,
                   total_media_items, created_blocks>>
    /\ UNCHANGED <<fmtVars, mgVars, exVars, mainVars, cliVars>>

\* lines 284-287: all_blocks.sort(key=date); return all_blocks
SortBlocks ==
    /\ pc = "download"
    /\ block_i > Len(all_blocks)
    /\ all_blocks' = SortByDate(all_blocks)
    /\ pc' = "finally"
    /\ UNCHANGED <<auth_ok, start_date, end_date, media_progress_callback, connected,
                   disconnect_calls, entity_calls, yielded, all_messages,
                   total_media_items, created_blocks, block_i, msg_i,
                   downloaded_media_items, download_log, progress_calls, exc>>
    /\ UNCHANGED <<fmtVars, mgVars, exVars, mainVars, cliVars>>

\* lines 289-290: finally: await self.client.disconnect()
Disconnect ==
    /\ pc = "finally"
    /\ disconnect_calls' = disconnect_calls + 1
    /\ connected' = FALSE
    /\ pc' = IF exc = "None" THEN "returned" ELSE "raised"
    /\ UNCHANGED <<auth_ok, start_date, end_date, media_progress_callback, entity_calls,
                   yielded, all_messages, total_media_items, created_blocks,
                   all_blocks, block_i, msg_i, downloaded_media_items,
                   download_log, progress_calls, exc>>
    /\ UNCHANGED <<fmtVars, mgVars, exVars, mainVars, cliVars>>

Next ==
    \/ Authenticate
    \/ GetEntity
    \/ IterMessage
    \/ IterEnd
    \/ Grouping
    \/ DownloadMedia
    \/ SortBlocks
    \/ Disconnect

Spec == Init /\ [][Next]_vars

----------------------------------------------------------------------------
(* Properties of fetch_messages *)

\* grouping has run: the blocks exist
Grouped == block_i >= 1

Returned == pc = "returned"

Content(b) == <<b.date, b.text, b.entities>>

IsAlbum(b) == b.messages[1].grouped_id # NoGroup

SeqToSet(s) == {s[i] : i \in 1 .. Len(s)}

\* the constituent messages of the created blocks
Constituents == UNION {SeqToSet(created_blocks[i].messages) : i \in 1 .. Len(created_blocks)}

AttemptedIds == {download_log[k][1] : k \in 1 .. Len(download_log)}

Outcomes == {download_log[k][2] : k \in 1 .. Len(download_log)}

InWindow(m) == m.action = "None" /\ start_date <= m.date /\ m.date <= end_date

\* C1: whenever fetch_messages returns, the returned Posts are non-decreasing
\* by date, whatever the production order (album Posts first) was
C1_ReturnedSortedByDate ==
    Returned =>
        \A i \in 1 .. Len(all_blocks) - 1 : all_blocks[i].date <= all_blocks[i + 1].date

\* an album Post produced before a standalone Post of an earlier date
C1_Witness ==
    /\ Returned
    /\ Len(created_blocks) >= 2
    /\ IsAlbum(created_blocks[1])
    /\ ~IsAlbum(created_blocks[Len(created_blocks)])
    /\ created_blocks[1].date > created_blocks[Len(created_blocks)].date

\* C2: a download that raises an Exception aborts nothing: fetch_messages does
\* not raise because of it, every attachment-bearing constituent message gets
\* its download attempted, and every Post is returned with its date, text and
\* entities as created
C2_DownloadFailureIsolated ==
    /\ ("Exception" \in Outcomes /\ "KeyboardInterrupt" \notin Outcomes)
          => (exc = "None" /\ pc # "raised")
    /\ Returned =>
          /\ \A m \in Constituents : HasMedia(m) => m.id \in AttemptedIds
          /\ Len(all_blocks) = Len(created_blocks)
          /\ \A i \in 1 .. Len(all_blocks) :
                Content(all_blocks[i]) = Content(SortByDate(created_blocks)[i])

\* the first download raised, a later one was still made, and the fetch returned
C2_Witness ==
    /\ Returned
    /\ Len(download_log) >= 2
    /\ download_log[1][2] = "Exception"
    /\ download_log[2][2] = "path"

\* C3: when interactive_auth returns False, fetch_messages raises at once:
\* no entity lookup, no listing, no download, no callback, no Post
C3_AuthFailureIsFatal ==
    auth_ok = "False" =>
        /\ pc = "raised" /\ exc = "Exception"
        /\ entity_calls = 0
        /\ yielded = <<>> /\ all_messages = <<>>
        /\ download_log = <<>> /\ progress_calls = <<>>
        /\ all_blocks = <<>>

\* the sign-in failed after the connection was made
C3_Witness == auth_ok = "False" /\ connected /\ pc = "raised"

\* C4: on every exit of fetch_messages client.disconnect has been called
C4_DisconnectOnEveryExit ==
    pc \in {"returned", "raised"} => disconnect_calls >= 1

\* the blocks whose materialization has ended, by their place in production order
Materialized(i) ==
    /\ Grouped
    /\ i \in 1 .. Len(created_blocks)
    /\ pc = "download"
    /\ i < block_i

StandaloneEmpty(m) == m.grouped_id = NoGroup /\ m.message = <<>>

BlocksOf(m) == {i \in 1 .. Len(created_blocks) : m \in SeqToSet(created_blocks[i].messages)}

\* C8 as stated: a listed standalone message with empty text gives no Post when
\* it has no attachment, and with an attachment exactly one Post, of empty
\* text, whose attachment list holds exactly one path once materialized
C8_OnePathOnceMaterialized ==
    Grouped =>
        \A m \in SeqToSet(all_messages) :
            StandaloneEmpty(m) =>
                IF ~HasMedia(m) THEN BlocksOf(m) = {}
                ELSE /\ Cardinality(BlocksOf(m)) = 1
                     /\ \A i \in BlocksOf(m) :
                           /\ created_blocks[i].text = <<>>
                           /\ Materialized(i) => Len(all_blocks[i].media_paths) = 1

\* C8 amended: the attachment list holds the one path when the download
\* returned a path, and is empty when it raised or returned none
C8_PathIffDownloaded ==
    Grouped =>
        \A m \in SeqToSet(all_messages) :
            StandaloneEmpty(m) =>
                IF ~HasMedia(m) THEN BlocksOf(m) = {}
                ELSE /\ Cardinality(BlocksOf(m)) = 1
                     /\ \A i \in BlocksOf(m) :
                           /\ created_blocks[i].text = <<>>
                           /\ Materialized(i) =>
                                 all_blocks[i].media_paths =
                                     IF <<m.id, "path">> \in SeqToSet(download_log)
                                     THEN <<PathOf(m)>> ELSE <<>>

\* an attachment-only standalone message whose Post got its path, next to an
\* empty standalone message that gave no Post
C8_Witness ==
    /\ pc = "download"
    /\ \E m \in SeqToSet(all_messages) :
          /\ StandaloneEmpty(m) /\ HasMedia(m)
          /\ \E i \in BlocksOf(m) : Materialized(i) /\ Len(all_blocks[i].media_paths) = 1
    /\ \E m \in SeqToSet(all_messages) : StandaloneEmpty(m) /\ ~HasMedia(m)

\* C9: the window is inclusive at both ends and excludes service messages:
\* every yielded non-service message dated from start to end, the two ends
\* included, is listed; nothing else is listed, becomes part of a Post or is
\* counted in the total
C9_WindowInclusive ==
    /\ \A m \in SeqToSet(yielded) : InWindow(m) <=> m \in SeqToSet(all_messages)
    /\ Grouped =>
          /\ \A m \in Constituents : InWindow(m)
          /\ total_media_items =
                Cardinality({m \in SeqToSet(yielded) : InWindow(m) /\ HasMedia(m)})

\* a message dated at start and one dated at end are both listed
C9_Witness ==
    /\ Grouped
    /\ \E m \in SeqToSet(all_messages) : m.date = start_date
    /\ \E m \in SeqToSet(all_messages) : m.date = end_date

----------------------------------------------------------------------------
(* Progress reporting of fetch_messages *)

\* C12: a fetch given a callback whose listed messages carry no attachment
\* (total_media_items = 0) returns having called the callback exactly once,
\* with completed 0 against total 1
C12_ZeroTotalStillOneCall ==
    (Returned /\ media_progress_callback /\ total_media_items = 0) =>
        progress_calls = << <<0, 1>> >>

\* the listed messages that carry a photo or a document
ListedWithMedia == {m \in SeqToSet(all_messages) : HasMedia(m)}

\* C13: the k-th call of the progress callback receives completed = k and a
\* total that is the number of listed attachment-bearing messages, the same in
\* every call and fixed before the first download; completed never exceeds it
C13_ProgressCounterAgainstFixedTotal ==
    /\ \A k \in 1 .. Len(progress_calls) :
          /\ progress_calls[k][1] = k
          /\ progress_calls[k][2] = Cardinality(ListedWithMedia)
          /\ progress_calls[k][1] <= progress_calls[k][2]
    /\ progress_calls # <<>> => media_progress_callback
    /\ download_log # <<>> => total_media_items = Cardinality(ListedWithMedia)

\* two calls, the second for the attachment of another Post than the first
C13_Witness ==
    /\ Len(progress_calls) = 2
    /\ progress_calls[2] = <<2, 2>>
    /\ Len(all_blocks) = 2
    /\ \A i \in 1 .. Len(all_blocks) : Len(all_blocks[i].media_paths) = 1

----------------------------------------------------------------------------
(* Albums in fetch_messages *)

ListedGroupKeys == {m.grouped_id : m \in SeqToSet(all_messages)} \ {NoGroup}

ListedMembers(g) == {m \in SeqToSet(all_messages) : m.grouped_id = g}

\* the members whose download returned a path
MembersWithPath(g) ==
    {m \in ListedMembers(g) : HasMedia(m) /\ <<m.id, "path">> \in SeqToSet(download_log)}

\* C14: the listed messages of one GroupKey make exactly one Post, whose
\* constituents are all of them; once that Post is materialized its attachment
\* list holds the path of every member whose download returned one, the
\* representative or not, in ascending order of member identifier
C14_AlbumOnePostAllMembersPaths ==
    Grouped =>
        \A g \in ListedGroupKeys :
            LET posts == {i \in 1 .. Len(created_blocks) :
                            SeqToSet(created_blocks[i].messages) \cap ListedMembers(g) # {}}
            IN /\ Cardinality(posts) = 1
               /\ \A i \in posts :
                     /\ SeqToSet(created_blocks[i].messages) = ListedMembers(g)
                     /\ Len(created_blocks[i].messages) = Cardinality(ListedMembers(g))
                     /\ Materialized(i) =>
                           LET paths == all_blocks[i].media_paths
                           IN /\ SeqToSet(paths) = {PathOf(m) : m \in MembersWithPath(g)}
                              /\ Len(paths) = Cardinality(MembersWithPath(g))
                              /\ \A a, b \in 1 .. Len(paths) :
                                    a < b => paths[a][2] < paths[b][2]

\* an album listed in descending identifier order whose two members both got
\* their path, the one holding the text being the later of the two
C14_Witness ==
    /\ pc = "download"
    /\ Len(all_messages) = 2
    /\ all_messages[1].id > all_messages[2].id
    /\ all_messages[1].grouped_id # NoGroup
    /\ all_messages[1].grouped_id = all_messages[2].grouped_id
    /\ all_messages[1].message = <<"a">> /\ all_messages[2].message = <<>>
    /\ Len(created_blocks) = 1 /\ Materialized(1)
    /\ all_blocks[1].media_paths = <<PathOf(all_messages[2]), PathOf(all_messages[1])>>

----------------------------------------------------------------------------
(* The phases of fetch_messages *)

\* the phase a position of fetch_messages belongs to; 0 after a failure
PhaseOf(p, e) ==
    IF e # "None" \/ p = "raised" THEN 0
    ELSE IF p = "auth" THEN 1                       \* Authenticating
    ELSE IF p \in {"get_entity", "listing"} THEN 2  \* Listing
    ELSE IF p = "grouping" THEN 3                   \* Grouping
    ELSE IF p = "download" THEN 4                   \* Materializing
    ELSE 5                                          \* Sorted: "finally", "returned"

\* what has happened by each phase, and what has not happened before it
PhaseInvariant ==
    /\ (yielded # <<>> \/ entity_calls > 0) => auth_ok = "True"
    /\ pc \in {"auth", "get_entity", "listing"} =>
          /\ created_blocks = <<>> /\ all_blocks = <<>> /\ block_i = 0
          /\ download_log = <<>> /\ progress_calls = <<>>
    /\ pc = "download" =>
          \A i \in 1 .. Len(all_blocks) : Content(all_blocks[i]) = Content(created_blocks[i])
    /\ PhaseOf(pc, exc) = 5 =>
          /\ auth_ok = "True" /\ entity_calls = 1
          /\ Grouped
          /\ block_i > Len(all_blocks)
          /\ \A i \in 1 .. Len(all_blocks) : all_blocks[i].messages = <<>>
          /\ \A m \in Constituents : HasMedia(m) => m.id \in AttemptedIds
          /\ all_blocks = SortByDate(all_blocks)

\* a step that does not fail stays in its phase or enters the next one
PhaseStep ==
    PhaseOf(pc', exc') # 0 =>
        /\ PhaseOf(pc, exc) # 0
        /\ PhaseOf(pc', exc') \in {PhaseOf(pc, exc), PhaseOf(pc, exc) + 1}

\* C15: a fetch that succeeds goes through Authenticating, Listing, Grouping,
\* Materializing, Sorted in this order without skipping one: nothing is listed
\* before authentication succeeded, no Post exists and no download is made
\* before the listing ended, and the sort comes after the last materialization
C15_PhasesInOrder == []PhaseInvariant /\ [][PhaseStep]_vars

\* a returned fetch that listed two messages, made two Posts of them, downloaded
\* both attachments and had to reorder the Posts in the sort
C15_Witness ==
    /\ Returned
    /\ Len(all_messages) = 2 /\ Len(all_blocks) = 2
    /\ Len(download_log) = 2
    /\ created_blocks[1].date > created_blocks[2].date

----------------------------------------------------------------------------
(* The transient message references *)

\* C18: every Post fetch_messages returns has an empty constituent-message
\* list, whether its downloads succeeded, failed, or it had no attachment
C18_ReturnedPostsHaveNoMessages ==
    Returned => \A i \in 1 .. Len(all_blocks) : all_blocks[i].messages = <<>>

\* returned: one Post whose download raised and one Post without attachment
C18_Witness ==
    /\ Returned
    /\ Len(all_blocks) = 2
    /\ Len(download_log) = 1 /\ download_log[1][2] = "Exception"
    /\ total_media_items = 1
    /\ \A i \in 1 .. 2 : all_blocks[i].media_paths = <<>>

----------------------------------------------------------------------------
(* fetch_messages as the program calls it *)

\* run_export (app.py, line 72) and main (main.py, line 254) both pass
\* on_media_progress as media_progress_callback
InitCalled == Init /\ media_progress_callback = TRUE

SpecCalled == InitCalled /\ [][Next]_vars

\* C24: the first yielded message dated strictly before start, service
\* message or not, ends the walk: it is the last message the iterator is asked
\* for and it is not listed, so nothing after it can be listed; a message dated
\* strictly after end is not listed and does not end the walk, in-window
\* messages yielded after it are listed
C24_StopsAtFirstBeforeStart ==
    /\ \A i \in 1 .. Len(yielded) :
          yielded[i].date < start_date =>
              /\ i = Len(yielded)
              /\ pc # "listing"
              /\ yielded[i] \notin SeqToSet(all_messages)
    /\ \A i \in 1 .. Len(yielded) :
          yielded[i].date > end_date =>
              /\ yielded[i] \notin SeqToSet(all_messages)
              /\ \A j \in i + 1 .. Len(yielded) :
                    InWindow(yielded[j]) => yielded[j] \in SeqToSet(all_messages)

\* a service message dated before start ended the walk after one message was
\* listed
C24_Witness ==
    /\ Grouped
    /\ Len(yielded) = 2 /\ all_messages = <<yielded[1]>>
    /\ yielded[2].date < start_date
    /\ yielded[2].action # "None"

----------------------------------------------------------------------------
(* The order of the downloads *)

\* the identifiers of the attachment-bearing constituents of the blocks, block
\* after block, each block in its stored order
RECURSIVE MediaIdsInOrder(_)
MediaIdsInOrder(blocks) ==
    IF blocks = <<>> THEN <<>>
    ELSE LET withMedia == SelectSeq(Head(blocks).messages, HasMedia)
         IN [k \in 1 .. Len(withMedia) |-> withMedia[k].id]
            \o MediaIdsInOrder(Tail(blocks))

DownloadedIds == [k \in 1 .. Len(download_log) |-> download_log[k][1]]

\* what the download calls made so far must be: the first so many of the
\* attachments of the Posts in production order, album Posts first
DownloadsInOrder ==
    /\ \A i, j \in 1 .. Len(created_blocks) :
          (i < j /\ IsAlbum(created_blocks[j])) => IsAlbum(created_blocks[i])
    /\ Len(download_log) <= Len(MediaIdsInOrder(created_blocks))
    /\ DownloadedIds = SubSeq(MediaIdsInOrder(created_blocks), 1, Len(download_log))
    /\ (pc = "download" /\ block_i <= Len(all_blocks)) =>
          /\ \A i \in 1 .. block_i - 1 : all_blocks[i].messages = <<>>
          /\ \A i \in block_i + 1 .. Len(all_blocks) : all_blocks[i].media_paths = <<>>

\* one step makes at most one download call, and only the next one
OneDownloadAtATime ==
    \/ download_log' = download_log
    \/ /\ Len(download_log') = Len(download_log) + 1
       /\ SubSeq(download_log', 1, Len(download_log)) = download_log

\* C25: downloads are made one at a time, Post after Post in production order
\* (all album Posts before all standalone Posts, whatever their dates), and
\* within a Post in the stored order of its constituents
C25_DownloadsSequentialInOrder == []DownloadsInOrder /\ [][OneDownloadAtATime]_vars

\* a standalone message listed first and dated earlier than an album listed
\* after it: the attachment of the album was downloaded first
C25_Witness ==
    /\ Len(download_log) = 2
    /\ Len(all_messages) = 2
    /\ all_messages[1].grouped_id = NoGroup /\ all_messages[2].grouped_id # NoGroup
    /\ all_messages[1].date < all_messages[2].date
    /\ DownloadedIds = <<all_messages[2].id, all_messages[1].id>>

----------------------------------------------------------------------------
(* What materialization changes in a Post *)

\* the paths of the constituents of a block whose download has returned a
\* path so far, in the stored order of the constituents
PathsLogged(block) ==
    LET got == SelectSeq(block.messages,
                         LAMBDA m : HasMedia(m) /\ <<m.id, "path">> \in SeqToSet(download_log))
    IN [k \in 1 .. Len(got) |-> PathOf(got[k])]

\* a block as created, with the paths appended so far and nothing else changed
AsCreatedWithPaths(block) ==
    [date |-> block.date, text |-> block.text, entities |-> block.entities,
     media_paths |-> PathsLogged(block)]

WithoutMessages(block) ==
    [date |-> block.date, text |-> block.text, entities |-> block.entities,
     media_paths |-> block.media_paths]

\* C26: from its creation on, a Post differs from what grouping created only
\* by the paths appended to its attachment list: date, text and entities stay
\* as created, the attachment list is at every moment the paths obtained so
\* far in download order (so none is removed or reordered), and the Posts
\* returned are the created ones, sorted by date
C26_OnlyPathsAppended ==
    Grouped =>
        LET expected == [i \in 1 .. Len(created_blocks) |->
                            AsCreatedWithPaths(created_blocks[i])]
            now == [i \in 1 .. Len(all_blocks) |-> WithoutMessages(all_blocks[i])]
        IN IF pc \in {"finally", "returned"} /\ exc = "None"
           THEN now = SortByDate(expected)
           ELSE now = expected

\* returned: an album Post that got two paths, one after the other
C26_Witness ==
    /\ Returned
    /\ Len(all_blocks) = 1
    /\ Len(all_blocks[1].media_paths) = 2
    /\ all_blocks[1].text # <<>>

----------------------------------------------------------------------------
(* Every attachment once *)

\* how many times a message is a constituent of the created blocks
TimesConstituent(m) ==
    Cardinality({<<i, k>> \in (1 .. Len(created_blocks)) \X (1 .. MaxMsgs) :
                    k <= Len(created_blocks[i].messages)
                    /\ created_blocks[i].messages[k] = m})

TimesAttempted(m) == Cardinality({k \in 1 .. Len(download_log) : download_log[k][1] = m.id})

MaterializationEnded ==
    \/ pc = "download" /\ block_i > Len(all_blocks)
    \/ pc \in {"finally", "returned"} /\ exc = "None" /\ Grouped

\* C28: every listed message with an attachment is a constituent of exactly
\* one Post, once; its download is never attempted twice, and has been
\* attempted exactly once when materialization has ended
C28_EveryAttachmentAttemptedOnce ==
    Grouped =>
        \A m \in ListedWithMedia :
            /\ TimesConstituent(m) = 1
            /\ TimesAttempted(m) <= 1
            /\ MaterializationEnded => TimesAttempted(m) = 1

\* materialization ended on an attachment-only standalone message and an
\* attachment-only album member
C28_Witness ==
    /\ MaterializationEnded
    /\ Len(download_log) = 2
    /\ \A m \in SeqToSet(all_messages) : HasMedia(m) /\ m.message = <<>>
    /\ \E m \in SeqToSet(all_messages) : m.grouped_id = NoGroup
    /\ \E m \in SeqToSet(all_messages) : m.grouped_id # NoGroup

----------------------------------------------------------------------------
(* The counter and the downloads that raise *)

LogCount(outcomes) ==
    Cardinality({k \in 1 .. Len(download_log) : download_log[k][2] \in outcomes})

\* C29: the completed counter counts the downloads that returned, with a path
\* or without one, and each of them is followed by one callback call; a
\* download that raised is neither counted nor reported, so at the end of
\* materialization the counter is the total minus the downloads that raised,
\* and in a fetch with a raising download no call reports completed = total
C29_CounterSkipsRaisingDownloads ==
    /\ downloaded_media_items = LogCount({"path", "no_path"})
    /\ Len(progress_calls) = downloaded_media_items
    /\ MaterializationEnded =>
          downloaded_media_items = total_media_items - LogCount({"Exception"})
    /\ LogCount({"Exception", "KeyboardInterrupt"}) > 0 =>
          \A k \in 1 .. Len(progress_calls) : progress_calls[k][1] < progress_calls[k][2]

\* materialization ended after a download that raised and one that returned
\* no path: one call, reporting 1 of 2, and no path in any Post
C29_Witness ==
    /\ MaterializationEnded
    /\ Len(download_log) = 2
    /\ download_log[1][2] = "Exception" /\ download_log[2][2] = "no_path"
    /\ progress_calls = << <<1, 2>> >>
    /\ \A i \in 1 .. Len(all_blocks) : all_blocks[i].media_paths = <<>>

----------------------------------------------------------------------------
(* The number of Posts *)

\* the listed standalone messages that pass the filter of line 106
ListedStandaloneKept ==
    {m \in SeqToSet(all_messages) :
        m.grouped_id = NoGroup /\ (m.message # <<>> \/ HasMedia(m))}

\* C30: the Posts created, and the Posts returned, are as many as the GroupKeys
\* among the listed messages plus the listed standalone messages with text or
\* an attachment; the filter does not apply to albums
C30_PostCount ==
    Grouped =>
        /\ Len(created_blocks) = Cardinality(ListedGroupKeys) + Cardinality(ListedStandaloneKept)
        /\ Len(all_blocks) = Len(created_blocks)

\* returned: an album whose members have no text and no attachment gave a
\* Post, an empty standalone message gave none
C30_Witness ==
    /\ Returned
    /\ Len(all_messages) = 2
    /\ \A m \in SeqToSet(all_messages) : m.message = <<>> /\ ~HasMedia(m)
    /\ all_messages[1].grouped_id # NoGroup /\ all_messages[2].grouped_id = NoGroup
    /\ Len(all_blocks) = 1
    /\ all_blocks[1].text = <<>> /\ all_blocks[1].media_paths = <<>>

----------------------------------------------------------------------------
(* AlbumGrouper._merge_grouped_messages on its own *)

\* text and entities of an album member
MemberShapes ==
    { [message |-> <<>>, entities |-> <<>>],
      [message |-> <<" ">>, entities |-> <<>>],
      [message |-> <<" ">>, entities |-> <<Bold(0, 1)>>],
      [message |-> <<"a">>, entities |-> <<Bold(0, 1)>>],
      [message |-> <<" ", "b", " ">>, entities |-> <<>>] }

Member(i, d, t) ==
    [id |-> i, date |-> d, message |-> t.message, entities |-> t.entities,
     media |-> "MessageMediaPhoto", grouped_id |-> 1, action |-> "None"]

\* the identifiers of n members, each identifier once, in any order
MemberIds(n) ==
    {f \in [1 .. n -> 1 .. MaxMembers] : \A i, j \in 1 .. n : i # j => f[i] # f[j]}

\* the input is the members of one album, in any order
InitMerge ==
    /\ mg_pc = "call"
    /\ \E n \in 0 .. MaxMembers :
        \E ids \in MemberIds(n), ds \in [1 .. n -> {1, 2}], ts \in [1 .. n -> MemberShapes] :
            mg_in = [k \in 1 .. n |-> Member(ids[k], ds[k], ts[k])]
    /\ mg_out = <<>>
    /\ NoFetch /\ NoFmt /\ NoExport /\ NoMain /\ NoCli

\* lines 70-102
MergeCall ==
    /\ mg_pc = "call"
    /\ mg_out' = MergeGroupedMessages(mg_in)
    /\ mg_pc' = "done"
    /\ UNCHANGED <<mg_in, fetchVars, fmtVars, exVars, mainVars, cliVars>>

NextMerge == MergeCall

SpecMerge == InitMerge /\ [][NextMerge]_vars

IsBlank(t) == \A i \in 1 .. Len(t) : t[i] \in WhitespaceChars

MembersWithText == {m \in SeqToSet(mg_in) : ~IsBlank(m.message)}

LowestIn(S) == CHOOSE m \in S : \A o \in S : m.id <= o.id

C7_AllBlankGivesEmptyText ==
    (mg_pc = "done" /\ mg_in # <<>> /\ MembersWithText = {}) =>
        /\ Len(mg_out) = 1
        /\ mg_out[1].text = <<>>
        /\ mg_out[1].entities = LowestIn(SeqToSet(mg_in)).entities
        /\ mg_out[1].date = LowestIn(SeqToSet(mg_in)).date

\* C7 amended: when every member is blank, the merged Post has the text of the
\* lowest-identifier member as it is (blank, not necessarily empty), with the
\* date and entities of that member
C7_AllBlankGivesLowestIdText ==
    (mg_pc = "done" /\ mg_in # <<>> /\ MembersWithText = {}) =>
        /\ Len(mg_out) = 1
        /\ mg_out[1].text = LowestIn(SeqToSet(mg_in)).message
        /\ IsBlank(mg_out[1].text)
        /\ mg_out[1].entities = LowestIn(SeqToSet(mg_in)).entities
        /\ mg_out[1].date = LowestIn(SeqToSet(mg_in)).date

\* the album of spec 8: an empty member listed before a whitespace-only
\* member of lower identifier
C7_Witness ==
    /\ mg_pc = "done" /\ Len(mg_in) = 2 /\ MembersWithText = {}
    /\ mg_in[1].message = <<>> /\ mg_in[2].message = <<" ">>
    /\ mg_in[2].id < mg_in[1].id
    /\ mg_in[1].date # mg_in[2].date
    /\ mg_out[1].text = <<" ">>

----------------------------------------------------------------------------
(* ExporterApp.run_export *)

\* the Posts a fetch can return
ExPosts ==
    { [date |-> d, text |-> t.message, entities |-> t.entities, media_paths |-> mp] :
        d \in {1, 2}, t \in TextShapes, mp \in {<<>>, <<PathOf([id |-> 1])>>} }

\* fetch_messages returns its Posts sorted by date (line 285)
FetchResults ==
    { l \in UNION {[1 .. n -> ExPosts] : n \in 0 .. MaxBlocks} :
        \A i \in 1 .. Len(l) - 1 : l[i].date <= l[i + 1].date }

\* add_post called without the attachment paths of the block
PostOfWithoutImages(block) ==
    [date |-> block.date, text |-> block.text, images |-> <<>>,
     entities |-> block.entities]

\* the arguments add_post receives of a block (app.py, lines 107-112; the same
\* call in main.py, lines 173-178)
PostOf(block) ==
    [date |-> block.date, text |-> block.text, images |-> block.media_paths,
     entities |-> block.entities]

\* no early return: an empty result goes on to the save
AfterFetchNoEarlyReturn(blocks) == IF blocks = <<>> THEN "save" ELSE "process"

\* lines 78-84: no Post: return; else on to _process_content_blocks
AfterFetch(blocks) == IF blocks = <<>> THEN "finally" ELSE "process"

InitExport ==
    /\ ex_pc = "init" /\ ex_fetch = "None" /\ ex_blocks = <<>> /\ ex_i = 0
    /\ ex_posts = <<>> /\ ex_saves = 0 /\ ex_cleans = 0 /\ ex_exc = "None"
    /\ NoFetch /\ NoFmt /\ NoMerge /\ NoMain /\ NoCli

\* an exception leaving the function without passing the finally block
ExUnwindNoFinally(e) == "raised"

\* lines 48 and 89: an exception raised inside the try block runs the finally
\* block before it leaves run_export
ExUnwind(e) == "finally"

\* lines 49-58: the two clients are constructed
ExInitClients ==
    /\ ex_pc = "init"
    /\ \E outcome \in {"ok", "Exception"} :
         IF outcome = "ok" THEN ex_pc' = "fetch" /\ ex_exc' = ex_exc
         ELSE ex_pc' = ExUnwind(outcome) /\ ex_exc' = outcome
    /\ UNCHANGED <<ex_fetch, ex_blocks, ex_i, ex_posts, ex_saves, ex_cleans>>
    /\ UNCHANGED <<fetchVars, fmtVars, mgVars, mainVars, cliVars>>

\* lines 72-80: the fetch returns its Posts or raises; no Post: return
ExFetch ==
    /\ ex_pc = "fetch"
    /\ \/ \E blocks \in FetchResults :
            /\ ex_fetch' = "returned"
            /\ ex_blocks' = blocks
            /\ ex_i' = 1
            /\ ex_pc' = AfterFetch(blocks)
            /\ ex_exc' = ex_exc
       \/ \E outcome \in {"Exception", "KeyboardInterrupt"} :
            /\ ex_fetch' = "raised"
            /\ ex_pc' = ExUnwind(outcome) /\ ex_exc' = outcome
            /\ UNCHANGED <<ex_blocks, ex_i>>
    /\ UNCHANGED <<ex_posts, ex_saves, ex_cleans>>
    /\ UNCHANGED <<fetchVars, fmtVars, mgVars, mainVars, cliVars>>

\* lines 106-113: one turn of the loop of _process_content_blocks
ExAddPost ==
    /\ ex_pc = "process"
    /\ ex_i <= Len(ex_blocks)
    /\ \E outcome \in {"ok", "Exception", "KeyboardInterrupt"} :
         IF outcome = "ok"
         THEN /\ ex_posts' = Append(ex_posts, PostOf(ex_blocks[ex_i]))
              /\ ex_i' = ex_i + 1
              /\ ex_pc' = IF ex_i = Len(ex_blocks) THEN "save" ELSE ex_pc
              /\ ex_exc' = ex_exc
         ELSE /\ ex_pc' = ExUnwind(outcome) /\ ex_exc' = outcome
              /\ UNCHANGED <<ex_posts, ex_i>>
    /\ UNCHANGED <<ex_fetch, ex_blocks, ex_saves, ex_cleans>>
    /\ UNCHANGED <<fetchVars, fmtVars, mgVars, mainVars, cliVars>>

\* line 87: docx_exporter.save(output_file)
ExSave ==
    /\ ex_pc = "save"
    /\ \E outcome \in {"ok", "Exception"} :
         IF outcome = "ok"
         THEN ex_saves' = ex_saves + 1 /\ ex_pc' = "finally" /\ ex_exc' = ex_exc
         ELSE ex_saves' = ex_saves /\ ex_pc' = ExUnwind(outcome) /\ ex_exc' = outcome
    /\ UNCHANGED <<ex_fetch, ex_blocks, ex_i, ex_posts, ex_cleans>>
    /\ UNCHANGED <<fetchVars, fmtVars, mgVars, mainVars, cliVars>>

\* lines 89-92: finally: clean_dir(self.temp_media_dir)
ExCleanDir ==
    /\ ex_pc = "finally"
    /\ ex_cleans' = ex_cleans + 1
    /\ ex_pc' = IF ex_exc = "None" THEN "returned" ELSE "raised"
    /\ UNCHANGED <<ex_fetch, ex_blocks, ex_i, ex_posts, ex_saves, ex_exc>>
    /\ UNCHANGED <<fetchVars, fmtVars, mgVars, mainVars, cliVars>>

NextExport ==
    \/ ExInitClients
    \/ ExFetch
    \/ ExAddPost
    \/ ExSave
    \/ ExCleanDir

SpecExport == InitExport /\ [][NextExport]_vars

\* C5: run_export has cleaned the temporary directory exactly once when it
\* exits, by return or by exception, and never before
C5_CleanedOnceOnEveryExit ==
    /\ ex_pc \in {"returned", "raised"} => ex_cleans = 1
    /\ ex_pc \notin {"returned", "raised"} => ex_cleans = 0

\* an exception raised while rendering, after a Post was added
C5_Witness ==
    /\ ex_pc = "raised" /\ ex_cleans = 1
    /\ ex_fetch = "returned"
    /\ Len(ex_posts) >= 1 /\ Len(ex_posts) < Len(ex_blocks)


\* C19: when the fetch returned no Post, run_export adds no post and saves no
\* document; a document is saved only after a fetch that returned a Post
C19_EmptyFetchSavesNothing ==
    /\ (ex_fetch = "returned" /\ ex_blocks = <<>>) => (ex_posts = <<>> /\ ex_saves = 0)
    /\ ex_saves > 0 => (ex_fetch = "returned" /\ Len(ex_blocks) >= 1)

\* run_export has returned after a fetch that returned no Post
C19_Witness ==
    /\ ex_pc = "returned"
    /\ ex_fetch = "returned" /\ ex_blocks = <<>>
    /\ ex_cleans = 1

\* the arguments add_post is to receive for the first n blocks of the fetch
ExpectedPosts(n) ==
    [i \in 1 .. n |-> [date |-> ex_blocks[i].date, text |-> ex_blocks[i].text,
                       images |-> ex_blocks[i].media_paths,
                       entities |-> ex_blocks[i].entities]]

\* C20: the posts added are at every moment the first Posts of the fetch
\* result, each once and in its order, with its date, text, attachment paths
\* and entities; the document is saved at most once, only after the last Post
\* was added, and exactly once when run_export returns from a non-empty fetch
C20_EveryPostOnceInOrderThenOneSave ==
    /\ Len(ex_posts) <= Len(ex_blocks)
    /\ ex_posts = ExpectedPosts(Len(ex_posts))
    /\ ex_saves <= 1
    /\ ex_saves = 1 => Len(ex_posts) = Len(ex_blocks)
    /\ (ex_pc = "returned" /\ ex_blocks # <<>>) =>
          (Len(ex_posts) = Len(ex_blocks) /\ ex_saves = 1)

\* returned after two Posts that differ, the one with an attachment path last
C20_Witness ==
    /\ ex_pc = "returned"
    /\ Len(ex_blocks) = 2 /\ Len(ex_posts) = 2
    /\ ex_blocks[1] # ex_blocks[2]
    /\ ex_blocks[2].media_paths # <<>>
    /\ ex_saves = 1

----------------------------------------------------------------------------
(* DocxExporter._add_formatted_text *)

\* text[a:b] with 0 <= a, 0 <= b: the ends are cut to the length of the text
Slice(text, a, b) ==
    LET n == Len(text)
        lo == IF a > n THEN n ELSE a
        hi == IF b > n THEN n ELSE b
    IN SubSeq(text, lo + 1, hi)

\* the entities left in list order
SortByOffsetSkipped(s) == s

\* line 142: sorted(entities, key=lambda e: e.offset), a stable sort
RECURSIVE InsertByOffset(_, _)
InsertByOffset(x, s) ==
    IF s = <<>> THEN <<x>>
    ELSE IF x.offset < Head(s).offset THEN <<x>> \o s
    ELSE <<Head(s)>> \o InsertByOffset(x, Tail(s))

RECURSIVE SortByOffset(_)
SortByOffset(s) ==
    IF s = <<>> THEN <<>>
    ELSE InsertByOffset(s[Len(s)], SortByOffset(SubSeq(s, 1, Len(s) - 1)))

SchemeHttp == <<"h", "t", "t", "p", ":", "/", "/">>

SchemeHttps == <<"h", "t", "t", "p", "s", ":", "/", "/">>

StartsWith(t, prefix) == Len(t) >= Len(prefix) /\ SubSeq(t, 1, Len(prefix)) = prefix

\* lines 175-181: the target of a link
UrlOf(entity, entity_text) ==
    IF entity.kind = "MessageEntityTextUrl" THEN entity.url
    ELSE IF StartsWith(entity_text, SchemeHttp) \/ StartsWith(entity_text, SchemeHttps)
    THEN entity_text
    ELSE SchemeHttps \o entity_text

\* one call on the paragraph: add_run with its styling, or add_hyperlink
Run(text, style) == [op |-> "add_run", text |-> text, style |-> style, url |-> <<>>]

\* lines 159-196: what is emitted for the span of one entity
EntityItem(entity, entity_text, hyperlink_handling) ==
    IF entity.kind = "MessageEntityBold" THEN Run(entity_text, "bold")
    ELSE IF entity.kind = "MessageEntityItalic" THEN Run(entity_text, "italic")
    ELSE IF entity.kind \in {"MessageEntityCode", "MessageEntityPre"}
    THEN Run(entity_text, "Courier New")
    ELSE IF entity.kind \in {"MessageEntityTextUrl", "MessageEntityUrl"}
    THEN IF hyperlink_handling = "active"
         THEN [op |-> "add_hyperlink", text |-> entity_text, style |-> "link",
               url |-> UrlOf(entity, entity_text)]
         ELSE Run(entity_text, "blue underline")
    ELSE Run(entity_text, "plain")

\* a loop that clips every entity to the text not yet emitted
RECURSIVE FormatLoopClipping(_, _, _, _)
FormatLoopClipping(text, sorted_entities, current_pos, hyperlink_handling) ==
    IF sorted_entities = <<>>
    THEN IF current_pos < Len(text)
         THEN <<Run(Slice(text, current_pos, Len(text)), "plain")>>
         ELSE <<>>
    ELSE LET entity == Head(sorted_entities)
             from == IF entity.offset > current_pos THEN entity.offset ELSE current_pos
             upto == IF entity.offset + entity.length > from
                     THEN entity.offset + entity.length ELSE from
             before == IF entity.offset > current_pos
                       THEN <<Run(Slice(text, current_pos, entity.offset), "plain")>>
                       ELSE <<>>
         IN before
            \o <<EntityItem(entity, Slice(text, from, upto), hyperlink_handling)>>
            \o FormatLoopClipping(text, Tail(sorted_entities), upto, hyperlink_handling)

\* lines 150-202: the loop over the sorted entities, then the rest of the text
RECURSIVE FormatLoop(_, _, _, _)
FormatLoop(text, sorted_entities, current_pos, hyperlink_handling) ==
    IF sorted_entities = <<>>
    THEN IF current_pos < Len(text)
         THEN <<Run(Slice(text, current_pos, Len(text)), "plain")>>
         ELSE <<>>
    ELSE LET entity == Head(sorted_entities)
             before == IF entity.offset > current_pos
                       THEN <<Run(Slice(text, current_pos, entity.offset), "plain")>>
                       ELSE <<>>
             entity_text == Slice(text, entity.offset, entity.offset + entity.length)
         IN before
            \o <<EntityItem(entity, entity_text, hyperlink_handling)>>
            \o FormatLoop(text, Tail(sorted_entities), entity.offset + entity.length,
                          hyperlink_handling)

\* the early return of lines 136-139 left out
AddFormattedTextNoEarlyReturn(text, entities, hyperlink_handling) ==
    << [op |-> "add_paragraph", text |-> <<>>, style |-> "plain", url |-> <<>>] >>
    \o FormatLoop(text, SortByOffset(entities), 0, hyperlink_handling)

\* lines 136-202: the calls made on the document, in order
AddFormattedText(text, entities, hyperlink_handling) ==
    IF entities = <<>>
    THEN << [op |-> "add_paragraph", text |-> text, style |-> "plain", url |-> <<>>] >>
    ELSE << [op |-> "add_paragraph", text |-> <<>>, style |-> "plain", url |-> <<>>] >>
         \o FormatLoop(text, SortByOffset(entities), 0, hyperlink_handling)

\* the texts: the first letters of the alphabet, each at its own place
Alphabet == <<"a", "b", "c", "d", "e", "f">>

FmtTexts == {SubSeq(Alphabet, 1, n) : n \in 0 .. MaxTextLen}

\* a Telegram entity covers at least one code unit
FmtEntities ==
    { [kind |-> k, offset |-> o, length |-> l,
       url |-> IF k = "MessageEntityTextUrl" THEN <<"u">> ELSE <<>>] :
        k \in {"MessageEntityBold", "MessageEntityTextUrl", "MessageEntityUrl",
               "MessageEntityMention"},
        o \in 0 .. MaxTextLen - 1,
        l \in 1 .. MaxTextLen }

FmtEntityLists ==
    { l \in UNION {[1 .. n -> FmtEntities] : n \in 0 .. MaxEntities} :
        \A i \in 1 .. Len(l) : l[i].offset + l[i].length <= MaxTextLen }

InitFormat ==
    /\ fmt_pc = "call"
    /\ fmt_mode \in {"active", "ignore"}
    /\ fmt_text \in FmtTexts
    /\ fmt_entities \in FmtEntityLists
    /\ fmt_out = <<>>
    /\ post_images = <<>> /\ post_image_position = "after"
    /\ post_include_date_heading = TRUE
    /\ NoFetch /\ NoMerge /\ NoExport /\ NoMain /\ NoCli

\* lines 126-202
FormatCall ==
    /\ fmt_pc = "call"
    /\ fmt_out' = AddFormattedText(fmt_text, fmt_entities, fmt_mode)
    /\ fmt_pc' = "done"
    /\ UNCHANGED <<fmt_mode, fmt_text, fmt_entities, post_images,
                   post_image_position, post_include_date_heading>>
    /\ UNCHANGED <<fetchVars, mgVars, exVars, mainVars, cliVars>>

NextFormat == FormatCall

SpecFormat == InitFormat /\ [][NextFormat]_vars

RECURSIVE ConcatTexts(_)
ConcatTexts(items) ==
    IF items = <<>> THEN <<>> ELSE Head(items).text \o ConcatTexts(Tail(items))

InRange(e, text) == e.offset >= 0 /\ e.length >= 1 /\ e.offset + e.length <= Len(text)

Overlap(e, f) == e.offset < f.offset + f.length /\ f.offset < e.offset + e.length

ValidEntities(entities, text) ==
    /\ \A i \in 1 .. Len(entities) : InRange(entities[i], text)
    /\ \A i, j \in 1 .. Len(entities) : i # j => ~Overlap(entities[i], entities[j])

C11_NoEntitiesOnePlainParagraph ==
    (fmt_pc = "done" /\ fmt_entities = <<>>) =>
        /\ Len(fmt_out) = 1
        /\ fmt_out[1].op = "add_paragraph"
        /\ fmt_out[1].text = fmt_text
        /\ fmt_out[1].style = "plain"
        /\ \A i \in 1 .. Len(fmt_out) : fmt_out[i].op \notin {"add_run", "add_hyperlink"}

\* a text of full length formatted with no entity
C11_Witness ==
    /\ fmt_pc = "done" /\ fmt_entities = <<>>
    /\ Len(fmt_text) = MaxTextLen
    /\ Len(fmt_out) = 1

\* two entities of the list overlap
SomeOverlap(entities) ==
    \E i, j \in 1 .. Len(entities) : i # j /\ Overlap(entities[i], entities[j])

\* how many of the entities cover the character at position p (from 0)
Covering(entities, p) ==
    Cardinality({i \in 1 .. Len(entities) :
                    entities[i].offset <= p /\ p < entities[i].offset + entities[i].length})

\* how many times the character c stands in the emitted texts
TimesEmitted(c) ==
    LET all == ConcatTexts(fmt_out)
    IN Cardinality({k \in 1 .. Len(all) : all[k] = c})

\* C27: when two entities lying in the text overlap, every character covered
\* by more than one entity is emitted more than once, and the emitted texts
\* concatenate to something longer than, hence other than, the original text
C27_OverlapBreaksRoundTrip ==
    ( /\ fmt_pc = "done"
      /\ \A i \in 1 .. Len(fmt_entities) : InRange(fmt_entities[i], fmt_text)
      /\ SomeOverlap(fmt_entities) ) =>
        /\ ConcatTexts(fmt_out) # fmt_text
        /\ Len(ConcatTexts(fmt_out)) > Len(fmt_text)
        /\ \A p \in 0 .. Len(fmt_text) - 1 :
              Covering(fmt_entities, p) > 1 => TimesEmitted(fmt_text[p + 1]) > 1

\* "abcd" with spans [0,2) and [1,3): emitted "ab", "bc", "d"
C27_Witness ==
    /\ fmt_pc = "done"
    /\ fmt_text = <<"a", "b", "c", "d">>
    /\ Len(fmt_entities) = 2
    /\ fmt_entities[1].offset = 0 /\ fmt_entities[1].length = 2
    /\ fmt_entities[2].offset = 1 /\ fmt_entities[2].length = 2
    /\ ConcatTexts(fmt_out) = <<"a", "b", "b", "c", "d">>

----------------------------------------------------------------------------
(* DocxExporter.add_post (src/src/docx_client.py) on its own *)

Paragraph(text) == [op |-> "add_paragraph", text |-> text, style |-> "plain", url |-> <<>>]

\* _add_image (lines 236-255): Image.open, then add_paragraph, then add_picture
AddImage(image) ==
    IF image.kind = "unreadable image" THEN <<>>
    ELSE IF image.kind = "rejected image" THEN <<Paragraph(<<>>)>>
    ELSE <<Paragraph(<<>>), [op |-> "add_picture", file_path |-> image.name]>>

\* _process_media_file (lines 204-234): what one call adds to the document;
\* an exception of _add_image is logged and ends the call
ProcessMediaFile(image) ==
    << [op |-> "_process_media_file", file_path |-> image.name] >>
    \o IF image.kind = "missing" THEN <<>>
       ELSE IF image.kind = "image" THEN AddImage(image) \o <<Paragraph(<<>>)>>
       ELSE IF image.kind \in {"unreadable image", "rejected image"} THEN AddImage(image)
       ELSE <<Paragraph(<<>>),
              Run(<<"[Unsupported file downloaded: ", image.name, "]">>, "italic gray"),
              Paragraph(<<>>)>>

\* the loop `for image_path in images: self._process_media_file(image_path)`
RECURSIVE ProcessAll(_)
ProcessAll(images) ==
    IF images = <<>> THEN <<>>
    ELSE ProcessMediaFile(Head(images)) \o ProcessAll(Tail(images))

\* lines 111-115: the text, when there is one, and a spacing paragraph
PostText(text, entities, hyperlink_handling) ==
    IF text = <<>> THEN <<>>
    ELSE << [op |-> "_add_formatted_text", text |-> text] >>
         \o AddFormattedText(text, entities, hyperlink_handling)
         \o <<Paragraph(<<>>)>>

\* an exporter that places the images after the text whatever its setting
AddPostAlwaysAfter(text, images, entities, image_position, hyperlink_handling, include_date_heading) ==
    (IF include_date_heading THEN << [op |-> "add_heading", level |-> 2] >> ELSE <<>>)
    \o PostText(text, entities, hyperlink_handling)
    \o ProcessAll(images)
    \o <<Paragraph(<<>>)>>

\* add_post (lines 91-124): the calls it makes, in order
AddPost(text, images, entities, image_position, hyperlink_handling, include_date_heading) ==
    (IF include_date_heading THEN << [op |-> "add_heading", level |-> 2] >> ELSE <<>>)
    \o (IF image_position = "before" THEN ProcessAll(images) ELSE <<>>)
    \o PostText(text, entities, hyperlink_handling)
    \o (IF image_position = "after" THEN ProcessAll(images) ELSE <<>>)
    \o <<Paragraph(<<>>)>>

\* a downloaded file: its name, and what the file system and the image
\* library make of it
ImageKinds == {"missing", "image", "unreadable image", "rejected image", "other file"}

Images == [name : 1 .. MaxImages, kind : ImageKinds]

ImageLists == UNION {[1 .. n -> Images] : n \in 0 .. MaxImages}

InitAddPost ==
    /\ fmt_pc = "add_post"
    /\ fmt_mode \in {"active", "ignore"}
    /\ fmt_text \in FmtTexts
    /\ fmt_entities \in {<<>>, <<Bold(0, 1)>>}
    /\ fmt_out = <<>>
    /\ post_images \in ImageLists
    /\ post_image_position \in {"before", "after"}
    /\ post_include_date_heading \in BOOLEAN
    /\ NoFetch /\ NoMerge /\ NoExport /\ NoMain /\ NoCli

\* lines 91-124
AddPostCall ==
    /\ fmt_pc = "add_post"
    /\ fmt_out' = AddPost(fmt_text, post_images, fmt_entities, post_image_position,
                          fmt_mode, post_include_date_heading)
    /\ fmt_pc' = "done"
    /\ UNCHANGED <<fmt_mode, fmt_text, fmt_entities, post_images,
                   post_image_position, post_include_date_heading>>
    /\ UNCHANGED <<fetchVars, mgVars, exVars, mainVars, cliVars>>

NextAddPost == AddPostCall

SpecAddPost == InitAddPost /\ [][NextAddPost]_vars

\* where in the calls of add_post an attachment is processed
ProcessedAt == {k \in 1 .. Len(fmt_out) : fmt_out[k].op = "_process_media_file"}

\* where the text is emitted
TextAt == {k \in 1 .. Len(fmt_out) : fmt_out[k].op = "_add_formatted_text"}

\* the attachments processed, in the order of the calls
RECURSIVE ProcessedNames(_)
ProcessedNames(calls) ==
    IF calls = <<>> THEN <<>>
    ELSE (IF Head(calls).op = "_process_media_file" THEN <<Head(calls).file_path>> ELSE <<>>)
         \o ProcessedNames(Tail(calls))

\* C22: with "before" every attachment is processed before the text is
\* emitted, with "after" the text is emitted before every attachment; in both
\* each attachment of the list is processed exactly once, in list order
C22_PlacementAndOrder ==
    fmt_pc = "done" =>
        /\ post_image_position = "before" =>
              \A k \in ProcessedAt, t \in TextAt : k < t
        /\ post_image_position = "after" =>
              \A k \in ProcessedAt, t \in TextAt : t < k
        /\ ProcessedNames(fmt_out) = [i \in 1 .. Len(post_images) |-> post_images[i].name]
        /\ Cardinality(TextAt) = IF fmt_text = <<>> THEN 0 ELSE 1

\* "before", two different attachments and a text: processed first, in order
C22_Witness ==
    /\ fmt_pc = "done"
    /\ post_image_position = "before"
    /\ Len(post_images) = 2 /\ post_images[1].name = 2 /\ post_images[2].name = 1
    /\ post_images[1].kind = "other file" /\ post_images[2].kind = "image"
    /\ fmt_text # <<>>
    /\ ProcessedNames(fmt_out) = <<2, 1>>
    /\ \E t \in TextAt : \A k \in ProcessedAt : k < t

----------------------------------------------------------------------------
(* main (src/main.py): one turn of its loop, running fetch_messages *)

\* main passes autosave_every=50 to process_content_blocks
AutosaveEvery == 50

\* one docx_exporter.save call: where to, the document as it was, and whether
\* the call returned
SaveCall(path, document, ok) == [path |-> path, document |-> document, ok |-> ok]

InitMain ==
    /\ main_pc = "setup" /\ main_temp_media_dir = FALSE /\ main_docx_exporter = FALSE
    /\ main_document = <<>> /\ main_blocks = <<>> /\ main_i = 0
    /\ main_saves = <<>> /\ main_cleans = 0 /\ main_exc = "None"
    /\ main_autosave_path = TRUE /\ main_autosave_every = AutosaveEvery
    /\ NoFetch /\ NoFmt /\ NoMerge /\ NoExport /\ NoCli

\* lines 199-254: interactive_setup, the directories, the confirmation, the two
\* clients, up to the call of fetch_messages with on_media_progress
MainSetup ==
    /\ main_pc = "setup"
    /\ \E outcome \in {"ValueError", "KeyboardInterrupt", "declined", "client_error",
                       "proceed"} :
         /\ main_temp_media_dir' = (outcome \in {"declined", "client_error", "proceed"})
         /\ main_docx_exporter' = (outcome = "proceed")
         /\ main_exc' = IF outcome \in {"ValueError", "client_error"} THEN "Exception"
                        ELSE IF outcome = "KeyboardInterrupt" THEN outcome
                        ELSE main_exc
         /\ main_pc' = IF outcome = "proceed" THEN "fetch"
                       ELSE IF outcome = "KeyboardInterrupt" THEN "interrupted"
                       ELSE "finally"
         /\ IF outcome = "proceed"
            THEN /\ pc' = "auth" /\ start_date' = 1 /\ end_date' = 2
                 /\ media_progress_callback' = TRUE
            ELSE UNCHANGED <<pc, start_date, end_date, media_progress_callback>>
    /\ UNCHANGED <<auth_ok, connected, disconnect_calls, entity_calls, yielded,
                   all_messages, total_media_items, created_blocks, all_blocks,
                   block_i, msg_i, downloaded_media_items, download_log,
                   progress_calls, exc>>
    /\ UNCHANGED <<main_document, main_blocks, main_i, main_saves, main_cleans>>
    /\ UNCHANGED <<main_autosave_path, main_autosave_every>>
    /\ UNCHANGED <<fmtVars, mgVars, exVars, cliVars>>

\* lines 254-265: fetch_messages has returned its blocks, or raised
MainAfterFetch ==
    /\ main_pc = "fetch"
    /\ pc \in {"returned", "raised"}
    /\ IF pc = "returned"
       THEN /\ main_blocks' = all_blocks
            /\ main_i' = 1
            /\ main_pc' = IF all_blocks = <<>> THEN "finally" ELSE "process"
            /\ main_exc' = main_exc
       ELSE /\ main_exc' = IF exc = "KeyboardInterrupt" THEN exc ELSE "Exception"
            /\ main_pc' = IF exc = "KeyboardInterrupt" THEN "interrupted" ELSE "finally"
            /\ UNCHANGED <<main_blocks, main_i>>
    /\ UNCHANGED <<main_temp_media_dir, main_docx_exporter, main_document, main_saves,
                   main_cleans>>
    /\ UNCHANGED <<main_autosave_path, main_autosave_every>>
    /\ UNCHANGED <<fetchVars, fmtVars, mgVars, exVars, cliVars>>

\* a save after every Post but the first of each run of autosave_every
AutosaveDueByIndex(i, autosave_path, autosave_every) ==
    autosave_path /\ (i - 1) % autosave_every = 0

\* line 180, with i counted from 1:
\* autosave_path is not None and (i + 1) % autosave_every == 0
AutosaveDue(i, autosave_path, autosave_every) ==
    autosave_path /\ i % autosave_every = 0

\* process_content_blocks, lines 161-183: one turn of its loop: add_post, then
\* the autosave when it is due; an exception of either ends the loop
MainAddPost ==
    /\ main_pc = "process"
    /\ main_i <= Len(main_blocks)
    /\ \E outcome \in {"ok", "Exception", "KeyboardInterrupt"}, saved \in {"ok", "Exception"} :
         IF outcome = "ok"
         THEN /\ main_document' = Append(main_document, PostOf(main_blocks[main_i]))
              /\ IF AutosaveDue(main_i, main_autosave_path, main_autosave_every)
                 THEN main_saves' = Append(main_saves,
                                           SaveCall("autosave", main_document', saved = "ok"))
                 ELSE saved = "ok" /\ main_saves' = main_saves
              /\ IF saved = "ok"
                 THEN /\ main_i' = main_i + 1
                      /\ main_pc' = IF main_i = Len(main_blocks) THEN "save" ELSE main_pc
                      /\ main_exc' = main_exc
                 ELSE /\ main_i' = main_i
                      /\ main_pc' = "finally"
                      /\ main_exc' = "Exception"
         ELSE /\ saved = "ok"
              /\ main_exc' = outcome
              /\ main_pc' = IF outcome = "KeyboardInterrupt" THEN "interrupted"
                            ELSE "finally"
              /\ UNCHANGED <<main_document, main_saves, main_i>>
    /\ UNCHANGED <<main_temp_media_dir, main_docx_exporter, main_blocks, main_cleans>>
    /\ UNCHANGED <<main_autosave_path, main_autosave_every>>
    /\ UNCHANGED <<fetchVars, fmtVars, mgVars, exVars, cliVars>>

\* lines 275-288: docx_exporter.save(output_file), then the summary
MainSave ==
    /\ main_pc = "save"
    /\ \E outcome \in {"ok", "Exception"} :
         /\ main_saves' = Append(main_saves,
                                 SaveCall("output", main_document, outcome = "ok"))
         /\ main_exc' = IF outcome = "ok" THEN main_exc ELSE outcome
         /\ main_pc' = "finally"
    /\ UNCHANGED <<main_temp_media_dir, main_docx_exporter, main_document, main_blocks,
                   main_i, main_cleans>>
    /\ UNCHANGED <<main_autosave_path, main_autosave_every>>
    /\ UNCHANGED <<fetchVars, fmtVars, mgVars, exVars, cliVars>>

\* lines 290-298: except KeyboardInterrupt: save what the document holds to
\* the partial path; an Exception of that save is swallowed
MainInterrupted ==
    /\ main_pc = "interrupted"
    /\ IF main_docx_exporter
       THEN \E outcome \in {"ok", "Exception"} :
               main_saves' = Append(main_saves,
                                    SaveCall("partial", main_document, outcome = "ok"))
       ELSE main_saves' = main_saves
    /\ main_exc' = "None"
    /\ main_pc' = "finally"
    /\ UNCHANGED <<main_temp_media_dir, main_docx_exporter, main_document, main_blocks,
                   main_i, main_cleans>>
    /\ UNCHANGED <<main_autosave_path, main_autosave_every>>
    /\ UNCHANGED <<fetchVars, fmtVars, mgVars, exVars, cliVars>>

\* lines 302-304: finally: clean_dir(temp_media_dir) when it was set
MainFinally ==
    /\ main_pc = "finally"
    /\ main_cleans' = IF main_temp_media_dir THEN main_cleans + 1 ELSE main_cleans
    /\ main_pc' = IF main_exc = "None" THEN "done" ELSE "raised"
    /\ UNCHANGED <<main_temp_media_dir, main_docx_exporter, main_document, main_blocks,
                   main_i, main_saves, main_exc>>
    /\ UNCHANGED <<main_autosave_path, main_autosave_every>>
    /\ UNCHANGED <<fetchVars, fmtVars, mgVars, exVars, cliVars>>

NextMain ==
    \/ MainSetup
    \/ Authenticate
    \/ GetEntity
    \/ IterMessage
    \/ IterEnd
    \/ Grouping
    \/ DownloadMedia
    \/ SortBlocks
    \/ Disconnect
    \/ MainAfterFetch
    \/ MainAddPost
    \/ MainSave
    \/ MainInterrupted
    \/ MainFinally

SpecMain == InitMain /\ [][NextMain]_vars

\* the Posts whose materialization had ended when fetch_messages raised
AssembledPosts ==
    IF Grouped
    THEN {PostOf(all_blocks[i]) : i \in {j \in 1 .. Len(all_blocks) : j < block_i}}
    ELSE {}

\* C16: after an interrupt during the fetch, a save of a partial document was
\* attempted that holds the Posts assembled by then, the connection was
\* released and the temporary attachment directory was cleaned
C16_InterruptedFetchPersistsPosts ==
    (main_pc = "done" /\ exc = "KeyboardInterrupt") =>
        /\ \E k \in 1 .. Len(main_saves) :
              /\ main_saves[k].path = "partial"
              /\ AssembledPosts \subseteq SeqToSet(main_saves[k].document)
        /\ disconnect_calls = 1
        /\ main_cleans = 1

----------------------------------------------------------------------------
(* process_content_blocks (src/main.py) on its own *)

\* n Posts, told apart by their dates
RenderBlocks(n) ==
    [k \in 1 .. n |-> [date |-> k, text |-> <<"a">>, entities |-> <<>>, media_paths |-> <<>>]]

\* the call of process_content_blocks: its blocks, autosave_path, autosave_every
InitRender ==
    /\ main_pc = "process"
    /\ main_temp_media_dir = TRUE /\ main_docx_exporter = TRUE
    /\ main_document = <<>> /\ main_i = 1
    /\ \E n \in 1 .. MaxPosts : main_blocks = RenderBlocks(n)
    /\ main_saves = <<>> /\ main_cleans = 0 /\ main_exc = "None"
    /\ main_autosave_path \in BOOLEAN
    /\ main_autosave_every \in 1 .. MaxEvery
    /\ NoFetch /\ NoFmt /\ NoMerge /\ NoExport /\ NoCli

NextRender == MainAddPost

SpecRender == InitRender /\ [][NextRender]_vars

\* the partial saves made so far
Autosaves == SelectSeq(main_saves, LAMBDA c : c.path = "autosave")

\* the document as the last partial save that returned wrote it
LastAutosaved ==
    LET done == SelectSeq(Autosaves, LAMBDA c : c.ok)
    IN IF done = <<>> THEN <<>> ELSE done[Len(done)].document

----------------------------------------------------------------------------
(* main_cli, interactive_setup and parse_date_input (src/src/cli.py) *)

DigitOf ==
    [c \in {"0", "1", "2", "3", "4", "5", "6", "7", "8", "9"} |->
        CASE c = "0" -> 0 [] c = "1" -> 1 [] c = "2" -> 2 [] c = "3" -> 3 [] c = "4" -> 4
          [] c = "5" -> 5 [] c = "6" -> 6 [] c = "7" -> 7 [] c = "8" -> 8 [] c = "9" -> 9]

\* the largest value of a C int, which the datetime constructor takes its fields as
CIntMax == 2147483647

\* the value of a field that does not fit a C int
TooBig == -1

\* date_str.split(".")
RECURSIVE SplitDots(_, _)
SplitDots(s, cur) ==
    IF s = <<>> THEN <<cur>>
    ELSE IF Head(s) = "." THEN <<cur>> \o SplitDots(Tail(s), <<>>)
    ELSE SplitDots(Tail(s), Append(cur, Head(s)))

RECURSIVE DigitsValue(_, _)
DigitsValue(s, acc) ==
    IF s = <<>> THEN acc
    ELSE LET d == DigitOf[Head(s)]
         IN IF acc > (CIntMax - d) \div 10 THEN TooBig
            ELSE DigitsValue(Tail(s), 10 * acc + d)

\* int(field): blanks around the literal are dropped, one sign is allowed, at
\* least one digit is needed; no value: int raises ValueError
IntOf(field) ==
    LET t == Strip(field)
        signed == t # <<>> /\ Head(t) \in {"+", "-"}
        digits == IF signed THEN Tail(t) ELSE t
    IN IF digits = <<>> \/ \E i \in 1 .. Len(digits) : digits[i] \notin DOMAIN DigitOf
       THEN <<>>
       ELSE << [negative |-> signed /\ Head(t) = "-", abs |-> DigitsValue(digits, 0)] >>

IsLeap(year) == (year % 4 = 0 /\ year % 100 # 0) \/ year % 400 = 0

DaysInMonth(year, month) ==
    IF month = 2 THEN (IF IsLeap(year) THEN 29 ELSE 28)
    ELSE IF month \in {4, 6, 9, 11} THEN 30
    ELSE 31

\* datetime(year, month, day, tzinfo=utc): the outcomes it can have.  A field
\* beyond the C int range raises OverflowError in the C implementation of
\* datetime and ValueError in the pure Python one
MakeDate(y, m, d) ==
    IF TooBig \in {y.abs, m.abs, d.abs}
    THEN { [raised |-> "OverflowError", date |-> <<>>],
           [raised |-> "ValueError", date |-> <<>>] }
    ELSE LET year == IF y.negative THEN 0 - y.abs ELSE y.abs
             month == IF m.negative THEN 0 - m.abs ELSE m.abs
             day == IF d.negative THEN 0 - d.abs ELSE d.abs
         IN IF /\ year \in 1 .. 9999
               /\ month \in 1 .. 12
               /\ day >= 1 /\ day <= DaysInMonth(year, month)
            THEN { [raised |-> "None",
                    date |-> << [year |-> year, month |-> month, day |-> day] >>] }
            ELSE { [raised |-> "ValueError", date |-> <<>>] }

\* lines 37-43: the first day of the month four months before now
RECURSIVE FourMonthsBack(_, _)
FourMonthsBack(year, month) ==
    IF month <= 0 THEN FourMonthsBack(year - 1, month + 12)
    ELSE [year |-> year, month |-> month, day |-> 1]

\* parse_date_input (lines 36-50): the outcomes it can have
ParseDateInput(date_str, now) ==
    IF Strip(date_str) = <<>>
    THEN { [raised |-> "None", date |-> <<FourMonthsBack(now.year, now.month - 4)>>] }
    ELSE LET fields == SplitDots(date_str, <<>>)
         IN IF Len(fields) # 3 \/ \E i \in 1 .. Len(fields) : IntOf(fields[i]) = <<>>
            THEN { [raised |-> "ValueError", date |-> <<>>] }
            ELSE MakeDate(IntOf(fields[3])[1], IntOf(fields[2])[1], IntOf(fields[1])[1])

\* datetime.now(timezone.utc): a month early in the year and one late in it
Nows == { [year |-> 2024, month |-> 3], [year |-> 2024, month |-> 11] }

\* what the user can type as start date, and whether it is a malformed date:
\* not empty, and not day.month.year of a date of the calendar
DateInputs ==
    { [str |-> <<>>, malformed |-> FALSE],
      [str |-> <<" ">>, malformed |-> FALSE],
      [str |-> <<"1", ".", "2", ".", "2", "0", "2", "4">>, malformed |-> FALSE],
      [str |-> <<"2", "9", ".", "2", ".", "2", "0", "2", "4">>, malformed |-> FALSE],
      [str |-> <<" ", "1", ".", "2", ".", "2", "0", "2", "4">>, malformed |-> FALSE],
      [str |-> <<"2", "9", ".", "2", ".", "2", "0", "2", "3">>, malformed |-> TRUE],
      [str |-> <<"1", ".", "1", "3", ".", "2", "0", "2", "4">>, malformed |-> TRUE],
      [str |-> <<"1", ".", "2">>, malformed |-> TRUE],
      [str |-> <<"1", ".", "2", ".", "3", ".", "4">>, malformed |-> TRUE],
      [str |-> <<"2", "0", "2", "4", "-", "0", "2", "-", "0", "1">>, malformed |-> TRUE],
      [str |-> <<"a", ".", "2", ".", "2", "0", "2", "4">>, malformed |-> TRUE],
      [str |-> <<"1", ".", ".", "2", "0", "2", "4">>, malformed |-> TRUE],
      [str |-> <<"-", "1", ".", "2", ".", "2", "0", "2", "4">>, malformed |-> TRUE],
      [str |-> <<"1", ".", "1", ".", "0">>, malformed |-> TRUE],
      [str |-> <<"1", ".", "1", ".", "9", "9", "9", "9", "9", "9", "9", "9", "9", "9", "9">>, malformed |-> TRUE] }

ChannelInputs == { <<>>, <<"@", "c">> }

MalformedDates == {d.str : d \in {x \in DateInputs : x.malformed}}

\* what the user types during one interactive_setup
CliInputs ==
    /\ cli_credentials' \in BOOLEAN
    /\ cli_channel_url' \in ChannelInputs
    /\ cli_start_date_str' \in {d.str : d \in DateInputs}

InitCli ==
    /\ cli_pc = "setup"
    /\ cli_credentials \in BOOLEAN
    /\ cli_channel_url \in ChannelInputs
    /\ cli_start_date_str \in {d.str : d \in DateInputs}
    /\ cli_export_config = <<>> /\ cli_logged = "None"
    /\ cli_log = <<"turn">>
    /\ NoFetch /\ NoFmt /\ NoMerge /\ NoExport /\ NoMain

\* interactive_setup (lines 107-164): what it returns or raises on the inputs
InteractiveSetup(credentials, channel_url, start_date_str, now) ==
    IF ~credentials THEN { [raised |-> "ValueError", config |-> <<>>] }
    ELSE IF channel_url = <<>> THEN { [raised |-> "ValueError", config |-> <<>>] }
    ELSE { [raised |-> r.raised,
            config |-> IF r.raised = "None"
                       THEN << [channel_url |-> channel_url, start_date |-> r.date[1]] >>
                       ELSE <<>>] : r \in ParseDateInput(start_date_str, now) }

\* lines 189-202: Confirm.ask("Proceed with export?") is reached when
\* interactive_setup returned, run_export when the answer was yes
AskedToProceed(raised, proceed) ==
    IF raised # "None" THEN <<>>
    ELSE IF proceed THEN <<"Proceed with export? yes", "run_export">>
    ELSE <<"Proceed with export? no">>

\* a loop that is left when interactive_setup raises
CliSetupLeavingOnError ==
    /\ cli_pc = "setup"
    /\ \E now \in Nows, proceed \in BOOLEAN :
         \E r \in InteractiveSetup(cli_credentials, cli_channel_url,
                                   cli_start_date_str, now) :
            /\ cli_export_config' = r.config
            /\ cli_logged' = r.raised
            /\ cli_pc' = IF r.raised # "None" THEN "exited"
                         ELSE IF proceed THEN "export" ELSE "ask_again"
            /\ ex_pc' = IF r.raised = "None" /\ proceed THEN "init" ELSE ex_pc
            /\ cli_log' = cli_log \o AskedToProceed(r.raised, proceed)
    /\ UNCHANGED <<cli_credentials, cli_channel_url, cli_start_date_str>>
    /\ UNCHANGED <<ex_fetch, ex_blocks, ex_i, ex_posts, ex_saves, ex_cleans, ex_exc>>
    /\ UNCHANGED <<fetchVars, fmtVars, mgVars, mainVars>>

\* main_cli, lines 177-208: interactive_setup, the confirmation, and the start
\* of run_export; (ValueError, KeyboardInterrupt) and Exception are logged
CliSetup ==
    /\ cli_pc = "setup"
    /\ \E now \in Nows, proceed \in BOOLEAN :
         \E r \in InteractiveSetup(cli_credentials, cli_channel_url,
                                   cli_start_date_str, now) :
            /\ cli_export_config' = r.config
            /\ cli_logged' = r.raised
            /\ cli_pc' = IF r.raised = "None" /\ proceed THEN "export" ELSE "ask_again"
            /\ ex_pc' = IF r.raised = "None" /\ proceed THEN "init" ELSE ex_pc
            /\ cli_log' = cli_log \o AskedToProceed(r.raised, proceed)
    /\ UNCHANGED <<cli_credentials, cli_channel_url, cli_start_date_str>>
    /\ UNCHANGED <<ex_fetch, ex_blocks, ex_i, ex_posts, ex_saves, ex_cleans, ex_exc>>
    /\ UNCHANGED <<fetchVars, fmtVars, mgVars, mainVars>>

\* lines 202-208: run_export has returned or raised
CliAfterExport ==
    /\ cli_pc = "export"
    /\ ex_pc \in {"returned", "raised"}
    /\ cli_logged' = IF ex_pc = "raised" THEN ex_exc ELSE cli_logged
    /\ cli_pc' = "ask_again"
    /\ UNCHANGED <<cli_credentials, cli_channel_url, cli_start_date_str,
                   cli_export_config, cli_log>>
    /\ UNCHANGED <<fetchVars, fmtVars, mgVars, exVars, mainVars>>

\* the turns of the loop begun so far
Turns(log) == Cardinality({k \in 1 .. Len(log) : log[k] = "turn"})

\* lines 210-211, 176: "Run another export?": leave, or one more turn
CliAskAgain ==
    /\ cli_pc = "ask_again"
    /\ \E again \in BOOLEAN :
         IF again
         THEN /\ Turns(cli_log) < MaxTurns
              /\ cli_log' = cli_log \o <<"Run another export? yes", "turn">>
              /\ cli_pc' = "setup"
              /\ CliInputs
              /\ cli_export_config' = <<>> /\ cli_logged' = "None"
              /\ ex_pc' = "off" /\ ex_fetch' = "None" /\ ex_blocks' = <<>> /\ ex_i' = 0
              /\ ex_posts' = <<>> /\ ex_saves' = 0 /\ ex_cleans' = 0 /\ ex_exc' = "None"
         ELSE /\ cli_pc' = "exited"
              /\ cli_log' = Append(cli_log, "Run another export? no")
              /\ UNCHANGED <<cli_credentials, cli_channel_url, cli_start_date_str,
                             cli_export_config, cli_logged>>
              /\ UNCHANGED exVars
    /\ UNCHANGED <<fetchVars, fmtVars, mgVars, mainVars>>

NextCli ==
    \/ CliSetup
    \/ ExInitClients
    \/ ExFetch
    \/ ExAddPost
    \/ ExSave
    \/ ExCleanDir
    \/ CliAfterExport
    \/ CliAskAgain

SpecCli == InitCli /\ [][NextCli]_vars

\* the turn of the loop is past interactive_setup
SetupDone == cli_pc \in {"export", "ask_again", "exited"}

RejectedInput == cli_channel_url = <<>> \/ cli_start_date_str \in MalformedDates

\* no TelegramFetcher was constructed and no remote call made in this turn:
\* run_export, which does both, was not entered
NoRemoteOperation == ex_pc = "off" /\ ex_fetch = "None" /\ ex_cleans = 0

\* C17: with the credentials set, a malformed start date or an empty channel
\* makes interactive_setup raise ValueError, and nothing remote is done in
\* that turn of the loop of main_cli
C17_InvalidInputRejectedWithValueError ==
    (cli_credentials /\ RejectedInput) =>
        /\ NoRemoteOperation
        /\ SetupDone => (cli_logged = "ValueError" /\ cli_export_config = <<>>)

\* whatever the kind of the exception, an input that is not accepted leaves
\* the turn without any remote operation
InvalidInputNoRemoteOperation ==
    RejectedInput =>
        /\ NoRemoteOperation
        /\ SetupDone => (cli_logged # "None" /\ cli_export_config = <<>>)

\* a malformed date typed with the credentials set and a channel given: the
\* turn has ended with a ValueError logged
C17_Witness ==
    /\ cli_pc = "ask_again"
    /\ cli_credentials /\ cli_channel_url # <<>>
    /\ cli_start_date_str \in MalformedDates
    /\ cli_logged = "ValueError"


----------------------------------------------------------------------------
(* The loop of main_cli *)

\* where the turns of the loop begin in the log
TurnStarts == {k \in 1 .. Len(cli_log) : cli_log[k] = "turn"}

\* the log of the turn that begins at k: up to the next turn, or to the end
TurnLog(k) ==
    LET later == {j \in TurnStarts : j > k}
        last == IF later = {} THEN Len(cli_log)
                ELSE (CHOOSE j \in later : \A i \in later : j <= i) - 1
    IN SubSeq(cli_log, k, last)

\* the turn that begins at k is over: another began, or the loop was left
TurnOver(k) == (\E j \in TurnStarts : j > k) \/ cli_pc = "exited"

Times(seg, events) == Cardinality({i \in 1 .. Len(seg) : seg[i] \in events})

AgainAnswers == {"Run another export? yes", "Run another export? no"}

ProceedAnswers == {"Proceed with export? yes", "Proceed with export? no"}

\* C21: in every turn of the loop run_export is called at most once and only
\* right after a yes to "Proceed with export?"; a turn that is over asked
\* "Run another export?" exactly once, as its last step, whether the export
\* ran, was declined or raised, and a turn still running has not asked it;
\* the loop is left exactly when the answer is no, and goes on after a yes
C21_OneExportOneQuestionPerTurn ==
    /\ \A k \in TurnStarts :
          LET seg == TurnLog(k)
          IN /\ Times(seg, {"run_export"}) <= 1
             /\ Times(seg, ProceedAnswers) <= 1
             /\ \A i \in 1 .. Len(seg) :
                   seg[i] = "run_export" => seg[i - 1] = "Proceed with export? yes"
             /\ Times(seg, AgainAnswers) = IF TurnOver(k) THEN 1 ELSE 0
             /\ TurnOver(k) => seg[Len(seg)] \in AgainAnswers
             /\ seg[Len(seg)] = "Run another export? yes" <=> \E j \in TurnStarts : j > k
    /\ cli_pc = "exited" <=> cli_log[Len(cli_log)] = "Run another export? no"
    /\ ex_pc # "off" <=>
          \E k \in TurnStarts : ~(\E j \in TurnStarts : j > k)
                                 /\ Times(TurnLog(k), {"run_export"}) = 1
    /\ cli_pc = "ask_again" =>
          \/ ex_pc \in {"returned", "raised"}
          \/ ex_pc = "off" /\ (cli_logged # "None" \/ Times(cli_log, {"Proceed with export? no"}) > 0)

\* the first turn ended in a ValueError of interactive_setup and the answer
\* was yes; in the second the export was confirmed and raised, and the answer
\* was no
C21_Witness ==
    /\ cli_pc = "exited"
    /\ cli_logged = "Exception" /\ ex_pc = "raised"
    /\ cli_log = <<"turn", "Run another export? yes",
                   "turn", "Proceed with export? yes", "run_export",
                   "Run another export? no">>

====
